---- MODULE Spec2Model ----
(***************************************************************************)
(* Blueprint builder of the spaceship eDSL (spaceship_basic.py and the     *)
(* builder half of spaceship_bonusB.py).  The builder object is the record *)
(* `builder`; every method is an operator from the object (and its         *)
(* argument) to the object after the call, the outcome of the call and the *)
(* value returned.  An installed component is stored by its type name: the *)
(* dict the code stores is the catalog entry of that name plus 'type'.     *)
(***************************************************************************)
EXTENDS Integers, Sequences, FiniteSets, TLC

VARIABLES
    impl,       \* which source file the builder object comes from
    builder,    \* the BlueprintBuilder object
    design,     \* <<>> or <<the blueprint returned by finalize_blueprint>>
    last,       \* the last call: method, argument, outcome, object before it
    ship,       \* the SimFinalizedBlueprint a simulator runs, with its Modules
    simulator,  \* the ShipSimulator object's own fields
    call,       \* the last simulator call: input, outcome, state before it
    second,     \* <<>> or the own fields of a second ShipSimulator on `ship`
    typed       \* <<>> or the objects of spaceship_bonusA.py and its last call

vars == <<impl, builder, design, last, ship, simulator, call, second, typed>>

\* The simulator's part of the state.
simvars == <<ship, simulator, call, second, typed>>

(***************************************************************************)
(* 1. Exceptions and constants                                             *)
(***************************************************************************)

\* MODULE_SPECS of spaceship_basic.py
MODULE_SPECS ==
    [ Frame       |-> [mass |-> 1000, total_slots |-> 10],
      Reactor     |-> [ Fusion     |-> [slot_cost |-> 3, mass |-> 300, power_output |-> 1000],
                        Antimatter |-> [slot_cost |-> 3, mass |-> 450, power_output |-> 1000] ],
      Engine      |-> [ Ion    |-> [slot_cost |-> 2, mass |-> 100, power_draw |-> 250, thrust |-> 500],
                        Plasma |-> [slot_cost |-> 2, mass |-> 120, power_draw |-> 250, thrust |-> 750] ],
      LifeSupport |-> [ Standard |-> [slot_cost |-> 2, mass |-> 80, power_draw |-> 50],
                        Advanced |-> [slot_cost |-> 2, mass |-> 70, power_draw |-> 50] ],
      Bridge      |-> [ Explorer |-> [slot_cost |-> 1, mass |-> 50, power_draw |-> 75],
                        Command  |-> [slot_cost |-> 1, mass |-> 60, power_draw |-> 75] ],
      Shield      |-> [ Magnetic |-> [slot_cost |-> 1, mass |-> 40, power_draw |-> 100],
                        Phase    |-> [slot_cost |-> 1, mass |-> 40, power_draw |-> 100] ],
      Sensors     |-> [ Basic    |-> [slot_cost |-> 1, mass |-> 30, power_draw |-> 50],
                        Advanced |-> [slot_cost |-> 1, mass |-> 35, power_draw |-> 50] ] ]

\* MODULE_SPECS of spaceship_bonusB.py (heat, cooling draw and HP added)
MODULE_SPECS_bonusB ==
    [ Frame       |-> [mass |-> 1000, total_slots |-> 10],
      Reactor     |-> [ Fusion     |-> [slot_cost |-> 3, mass |-> 300, power_output |-> 1000,
                                        heat_generation |-> 20, power_draw |-> 50],
                        Antimatter |-> [slot_cost |-> 3, mass |-> 450, power_output |-> 1000,
                                        heat_generation |-> 30, power_draw |-> 70] ],
      Engine      |-> [ Ion    |-> [slot_cost |-> 2, mass |-> 100, power_draw |-> 250,
                                    thrust |-> 500, heat_generation |-> 15],
                        Plasma |-> [slot_cost |-> 2, mass |-> 120, power_draw |-> 250,
                                    thrust |-> 750, heat_generation |-> 25] ],
      LifeSupport |-> [ Standard |-> [slot_cost |-> 2, mass |-> 80, power_draw |-> 50,
                                      heat_generation |-> 5],
                        Advanced |-> [slot_cost |-> 2, mass |-> 70, power_draw |-> 50,
                                      heat_generation |-> 8] ],
      Bridge      |-> [ Explorer |-> [slot_cost |-> 1, mass |-> 50, power_draw |-> 75,
                                      heat_generation |-> 3],
                        Command  |-> [slot_cost |-> 1, mass |-> 60, power_draw |-> 75,
                                      heat_generation |-> 4] ],
      Shield      |-> [ Magnetic |-> [slot_cost |-> 1, mass |-> 40, power_draw |-> 100,
                                      heat_generation |-> 10, max_hp |-> 100],
                        Phase    |-> [slot_cost |-> 1, mass |-> 40, power_draw |-> 100,
                                      heat_generation |-> 12, max_hp |-> 120] ],
      Sensors     |-> [ Basic    |-> [slot_cost |-> 1, mass |-> 30, power_draw |-> 50,
                                      heat_generation |-> 2],
                        Advanced |-> [slot_cost |-> 1, mass |-> 35, power_draw |-> 50,
                                      heat_generation |-> 3] ] ]

\* class BuildPhase
INIT == "INIT"
FRAME_SET == "FRAME_SET"
CORE_LOCKED == "CORE_LOCKED"
FINALIZED == "FINALIZED"

BuildPhase == {INIT, FRAME_SET, CORE_LOCKED, FINALIZED}

\* The source files that define a phase-checked BlueprintBuilder.
Impls == {"basic", "bonusB"}

\* The catalog of the source file the builder comes from.
Specs == IF impl = "bonusB" THEN MODULE_SPECS_bonusB ELSE MODULE_SPECS

\* Python's None for a component that is not installed.
None == "None"

\* Outcomes of a call: normal return, or the exception raised, named by the
\* rule tag or the message that identifies it.
OK == "ok"
SafetyViolations ==
    { "A-212",          \* [A-212] Finalized Blueprints Cannot Be Modified.
      "A-103",          \* [A-103] Frame must be set immediately after start_blueprint.
      "A-305",          \* [A-305] Operation not allowed in phase ...
      "OnlyOne",        \* Only one Engine/LifeSupport/Bridge/Shield/Sensors allowed.
      "UnknownModule",  \* Unknown module type: ...
      "B-440",          \* [B-440] Cannot install ... Shield with ... Reactor.
      "B-307",          \* [B-307] Slot limitation exceeded.
      "FrameNotSet",    \* Frame not set. Cannot check slots.
      "B-209",          \* [B-209] Core System Integrity violated
      "MustLock",       \* Must lock core systems before finalizing.
      "NotCoreLocked" } \* Blueprint must be in CORE_LOCKED phase to finalize.
\* 'NoneType' object is not subscriptable: not a SafetyViolationException.
TypeError == "TypeError"

\* The type names a caller passes: every catalog name and one that is in no
\* category.
TypeNames ==
    { "Fusion", "Antimatter", "Ion", "Plasma", "Standard", "Advanced",
      "Explorer", "Command", "Magnetic", "Phase", "Basic", "Warp" }

(***************************************************************************)
(* 2. BlueprintBuilder                                                     *)
(***************************************************************************)

\* BlueprintBuilder.__init__
BlueprintBuilder ==
    [ phase |-> INIT, frame |-> None, reactors |-> <<>>, engine |-> None,
      life_support |-> None, bridge |-> None, shield |-> None,
      sensors |-> None, slots_used |-> 0 ]

\* A call that raises: the exception leaves the method with the object as it
\* is at that point and returns nothing.
Raise(self, err) == [self |-> self, result |-> err, ret |-> <<>>]

\* A call that returns: `return self` (ret = <<>>) or a returned blueprint.
Return(self, value) == [self |-> self, result |-> OK, ret |-> value]

\* _get_spec: the lookup fails when the type is not in the category.
get_spec_raises(module_category, module_type) ==
    module_type \notin DOMAIN Specs[module_category]

\* _get_spec: a copy of the catalog entry with its type name added.
get_spec(module_category, module_type) ==
    LET entry == Specs[module_category][module_type]
    IN  [k \in DOMAIN entry \cup {"type"} |->
            IF k = "type" THEN module_type ELSE entry[k]]

\* _check_slots that measures the cost against the whole frame, not against
\* the slots still free.
check_slots_ignores_used(self, cost) ==
    IF self.frame = None
    THEN "FrameNotSet"
    ELSE LET remaining == Specs.Frame.total_slots
         IN  IF cost > remaining THEN "B-307" ELSE OK

\* _check_slots with the comparison off by one slot.
check_slots_off_by_one(self, cost) ==
    IF self.frame = None
    THEN "FrameNotSet"
    ELSE LET remaining == Specs.Frame.total_slots - self.slots_used
         IN  IF cost > remaining + 1 THEN "B-307" ELSE OK

\* _check_slots [B-307]
check_slots(self, cost) ==
    IF self.frame = None
    THEN "FrameNotSet"
    ELSE LET remaining == Specs.Frame.total_slots - self.slots_used
         IN  IF cost > remaining THEN "B-307" ELSE OK

\* _check_phase that lets the initial phase through.
check_phase_init_allowed(self, allowed_phases, rule_id) ==
    IF self.phase \notin allowed_phases \cup {INIT} THEN rule_id ELSE OK

\* _check_phase [A-305]
check_phase(self, allowed_phases, rule_id) ==
    IF self.phase \notin allowed_phases THEN rule_id ELSE OK

\* _check_not_finalized [A-212]
check_not_finalized(self) ==
    IF self.phase = FINALIZED THEN "A-212" ELSE OK

\* set_frame that only refuses a builder that already has a frame while it
\* is still being filled, and so re-opens a locked or finalized builder.
set_frame_reopens(self) ==
    IF self.phase = FRAME_SET
    THEN Raise(self, "A-103")
    ELSE Return([self EXCEPT !.frame = "Frame", !.phase = FRAME_SET], <<>>)

\* set_frame [A-103]
set_frame(self) ==
    IF self.phase # INIT
    THEN Raise(self, "A-103")
    ELSE Return([self EXCEPT !.frame = "Frame", !.phase = FRAME_SET], <<>>)

\* add_reactor
add_reactor(self, type_name) ==
    IF check_not_finalized(self) # OK
    THEN Raise(self, check_not_finalized(self))
    ELSE IF check_phase(self, {FRAME_SET}, "A-305") # OK
    THEN Raise(self, check_phase(self, {FRAME_SET}, "A-305"))
    ELSE IF get_spec_raises("Reactor", type_name)
    THEN Raise(self, "UnknownModule")
    ELSE LET spec == get_spec("Reactor", type_name) IN
    IF check_slots(self, spec.slot_cost) # OK
    THEN Raise(self, check_slots(self, spec.slot_cost))
    ELSE Return([self EXCEPT !.reactors = Append(@, spec.type),
                             !.slots_used = @ + spec.slot_cost], <<>>)

\* add_engine that stores the engine before the slot check.
add_engine_early_write(self, type_name) ==
    IF check_not_finalized(self) # OK
    THEN Raise(self, check_not_finalized(self))
    ELSE IF check_phase(self, {FRAME_SET}, "A-305") # OK
    THEN Raise(self, check_phase(self, {FRAME_SET}, "A-305"))
    ELSE IF self.engine # None
    THEN Raise(self, "OnlyOne")
    ELSE IF get_spec_raises("Engine", type_name)
    THEN Raise(self, "UnknownModule")
    ELSE LET spec == get_spec("Engine", type_name)
             stored == [self EXCEPT !.engine = spec.type]
    IN
    IF check_slots(stored, spec.slot_cost) # OK
    THEN Raise(stored, check_slots(stored, spec.slot_cost))
    ELSE Return([stored EXCEPT !.slots_used = @ + spec.slot_cost], <<>>)

\* add_engine without the singleton test: a second engine replaces the first.
add_engine_replaces(self, type_name) ==
    IF check_not_finalized(self) # OK
    THEN Raise(self, check_not_finalized(self))
    ELSE IF check_phase(self, {FRAME_SET}, "A-305") # OK
    THEN Raise(self, check_phase(self, {FRAME_SET}, "A-305"))
    ELSE IF get_spec_raises("Engine", type_name)
    THEN Raise(self, "UnknownModule")
    ELSE LET spec == get_spec("Engine", type_name) IN
    IF check_slots(self, spec.slot_cost) # OK
    THEN Raise(self, check_slots(self, spec.slot_cost))
    ELSE Return([self EXCEPT !.engine = spec.type,
                             !.slots_used = @ + spec.slot_cost], <<>>)

\* add_engine
add_engine(self, type_name) ==
    IF check_not_finalized(self) # OK
    THEN Raise(self, check_not_finalized(self))
    ELSE IF check_phase(self, {FRAME_SET}, "A-305") # OK
    THEN Raise(self, check_phase(self, {FRAME_SET}, "A-305"))
    ELSE IF self.engine # None
    THEN Raise(self, "OnlyOne")
    ELSE IF get_spec_raises("Engine", type_name)
    THEN Raise(self, "UnknownModule")
    ELSE LET spec == get_spec("Engine", type_name) IN
    IF check_slots(self, spec.slot_cost) # OK
    THEN Raise(self, check_slots(self, spec.slot_cost))
    ELSE Return([self EXCEPT !.engine = spec.type,
                             !.slots_used = @ + spec.slot_cost], <<>>)

\* add_life_support
add_life_support(self, type_name) ==
    IF check_not_finalized(self) # OK
    THEN Raise(self, check_not_finalized(self))
    ELSE IF check_phase(self, {FRAME_SET}, "A-305") # OK
    THEN Raise(self, check_phase(self, {FRAME_SET}, "A-305"))
    ELSE IF self.life_support # None
    THEN Raise(self, "OnlyOne")
    ELSE IF get_spec_raises("LifeSupport", type_name)
    THEN Raise(self, "UnknownModule")
    ELSE LET spec == get_spec("LifeSupport", type_name) IN
    IF check_slots(self, spec.slot_cost) # OK
    THEN Raise(self, check_slots(self, spec.slot_cost))
    ELSE Return([self EXCEPT !.life_support = spec.type,
                             !.slots_used = @ + spec.slot_cost], <<>>)

\* add_bridge with the slot check made before the singleton test.
add_bridge_slots_first(self, type_name) ==
    IF check_not_finalized(self) # OK
    THEN Raise(self, check_not_finalized(self))
    ELSE IF check_phase(self, {FRAME_SET}, "A-305") # OK
    THEN Raise(self, check_phase(self, {FRAME_SET}, "A-305"))
    ELSE IF get_spec_raises("Bridge", type_name)
    THEN Raise(self, "UnknownModule")
    ELSE LET spec == get_spec("Bridge", type_name) IN
    IF check_slots(self, spec.slot_cost) # OK
    THEN Raise(self, check_slots(self, spec.slot_cost))
    ELSE IF self.bridge # None
    THEN Raise(self, "OnlyOne")
    ELSE Return([self EXCEPT !.bridge = spec.type,
                             !.slots_used = @ + spec.slot_cost], <<>>)

\* add_bridge
add_bridge(self, type_name) ==
    IF check_not_finalized(self) # OK
    THEN Raise(self, check_not_finalized(self))
    ELSE IF check_phase(self, {FRAME_SET}, "A-305") # OK
    THEN Raise(self, check_phase(self, {FRAME_SET}, "A-305"))
    ELSE IF self.bridge # None
    THEN Raise(self, "OnlyOne")
    ELSE IF get_spec_raises("Bridge", type_name)
    THEN Raise(self, "UnknownModule")
    ELSE LET spec == get_spec("Bridge", type_name) IN
    IF check_slots(self, spec.slot_cost) # OK
    THEN Raise(self, check_slots(self, spec.slot_cost))
    ELSE Return([self EXCEPT !.bridge = spec.type,
                             !.slots_used = @ + spec.slot_cost], <<>>)

\* lock_core_systems that forgets the engine in the integrity test.
lock_core_systems_no_engine(self) ==
    IF check_not_finalized(self) # OK
    THEN Raise(self, check_not_finalized(self))
    ELSE IF check_phase(self, {FRAME_SET}, "A-305") # OK
    THEN Raise(self, check_phase(self, {FRAME_SET}, "A-305"))
    ELSE IF ~(self.reactors # <<>> /\ self.life_support # None
              /\ self.bridge # None)
    THEN Raise(self, "B-209")
    ELSE Return([self EXCEPT !.phase = CORE_LOCKED], <<>>)

\* lock_core_systems [B-209]
lock_core_systems(self) ==
    IF check_not_finalized(self) # OK
    THEN Raise(self, check_not_finalized(self))
    ELSE IF check_phase(self, {FRAME_SET}, "A-305") # OK
    THEN Raise(self, check_phase(self, {FRAME_SET}, "A-305"))
    ELSE IF ~(self.reactors # <<>> /\ self.engine # None
              /\ self.life_support # None /\ self.bridge # None)
    THEN Raise(self, "B-209")
    ELSE Return([self EXCEPT !.phase = CORE_LOCKED], <<>>)

\* add_shield without the Antimatter/Magnetic dependency test: only the
\* Fusion/Phase pair is refused.
add_shield_one_rule(self, type_name) ==
    IF check_not_finalized(self) # OK
    THEN Raise(self, check_not_finalized(self))
    ELSE IF check_phase(self, {CORE_LOCKED}, "A-305") # OK
    THEN Raise(self, check_phase(self, {CORE_LOCKED}, "A-305"))
    ELSE IF self.shield # None
    THEN Raise(self, "OnlyOne")
    ELSE IF get_spec_raises("Shield", type_name)
    THEN Raise(self, "UnknownModule")
    ELSE LET spec == get_spec("Shield", type_name)
             has_fusion ==
                 \E i \in DOMAIN self.reactors : self.reactors[i] = "Fusion"
    IN
    IF has_fusion /\ type_name = "Phase"
    THEN Raise(self, "B-440")
    ELSE IF check_slots(self, spec.slot_cost) # OK
    THEN Raise(self, check_slots(self, spec.slot_cost))
    ELSE Return([self EXCEPT !.shield = spec.type,
                             !.slots_used = @ + spec.slot_cost], <<>>)

\* add_shield [B-440]
add_shield(self, type_name) ==
    IF check_not_finalized(self) # OK
    THEN Raise(self, check_not_finalized(self))
    ELSE IF check_phase(self, {CORE_LOCKED}, "A-305") # OK
    THEN Raise(self, check_phase(self, {CORE_LOCKED}, "A-305"))
    ELSE IF self.shield # None
    THEN Raise(self, "OnlyOne")
    ELSE IF get_spec_raises("Shield", type_name)
    THEN Raise(self, "UnknownModule")
    ELSE LET spec == get_spec("Shield", type_name)
             has_fusion ==
                 \E i \in DOMAIN self.reactors : self.reactors[i] = "Fusion"
             has_antimatter ==
                 \E i \in DOMAIN self.reactors : self.reactors[i] = "Antimatter"
    IN
    IF has_fusion /\ type_name = "Phase"
    THEN Raise(self, "B-440")
    ELSE IF has_antimatter /\ type_name = "Magnetic"
    THEN Raise(self, "B-440")
    ELSE IF check_slots(self, spec.slot_cost) # OK
    THEN Raise(self, check_slots(self, spec.slot_cost))
    ELSE Return([self EXCEPT !.shield = spec.type,
                             !.slots_used = @ + spec.slot_cost], <<>>)

\* add_sensors that installs the module without counting its slots.
add_sensors_not_counted(self, type_name) ==
    IF check_not_finalized(self) # OK
    THEN Raise(self, check_not_finalized(self))
    ELSE IF check_phase(self, {CORE_LOCKED}, "A-305") # OK
    THEN Raise(self, check_phase(self, {CORE_LOCKED}, "A-305"))
    ELSE IF self.sensors # None
    THEN Raise(self, "OnlyOne")
    ELSE IF get_spec_raises("Sensors", type_name)
    THEN Raise(self, "UnknownModule")
    ELSE LET spec == get_spec("Sensors", type_name) IN
    IF check_slots(self, spec.slot_cost) # OK
    THEN Raise(self, check_slots(self, spec.slot_cost))
    ELSE Return([self EXCEPT !.sensors = spec.type], <<>>)

\* add_sensors
add_sensors(self, type_name) ==
    IF check_not_finalized(self) # OK
    THEN Raise(self, check_not_finalized(self))
    ELSE IF check_phase(self, {CORE_LOCKED}, "A-305") # OK
    THEN Raise(self, check_phase(self, {CORE_LOCKED}, "A-305"))
    ELSE IF self.sensors # None
    THEN Raise(self, "OnlyOne")
    ELSE IF get_spec_raises("Sensors", type_name)
    THEN Raise(self, "UnknownModule")
    ELSE LET spec == get_spec("Sensors", type_name) IN
    IF check_slots(self, spec.slot_cost) # OK
    THEN Raise(self, check_slots(self, spec.slot_cost))
    ELSE Return([self EXCEPT !.sensors = spec.type,
                             !.slots_used = @ + spec.slot_cost], <<>>)

\* The list `self.reactors + [engine, life_support, bridge, shield, sensors]`
\* of _calculate_specs without its None entries, each entry as the pair
\* <<category, type name>> that identifies the stored dict.
active_modules(self) ==
    LET opt(category, type) ==
            IF type = None THEN <<>> ELSE << <<category, type>> >>
    IN  [i \in DOMAIN self.reactors |-> <<"Reactor", self.reactors[i]>>]
        \o opt("Engine", self.engine)
        \o opt("LifeSupport", self.life_support)
        \o opt("Bridge", self.bridge)
        \o opt("Shield", self.shield)
        \o opt("Sensors", self.sensors)

\* m.get(key, 0) of a stored module dict
spec_get(m, key) ==
    LET spec == get_spec(m[1], m[2])
    IN  IF key \in DOMAIN spec THEN spec[key] ELSE 0

\* sum(m.get(key, 0) for m in modules)
RECURSIVE sum_of(_, _)
sum_of(modules, key) ==
    IF modules = <<>>
    THEN 0
    ELSE spec_get(Head(modules), key) + sum_of(Tail(modules), key)

\* _calculate_specs raises TypeError at self.frame['mass'] when no frame is
\* set (None is not subscriptable).
calculate_specs_raises(self) == self.frame = None

\* _calculate_specs that sums power_draw over the non-reactor modules only.
calculate_specs_no_cooling_draw(self) ==
    LET total_mass == Specs.Frame.mass + sum_of(active_modules(self), "mass")
        reactors == SelectSeq(active_modules(self), LAMBDA m : m[1] = "Reactor")
        others == SelectSeq(active_modules(self), LAMBDA m : m[1] # "Reactor")
        total_power_output == sum_of(reactors, "power_output")
        total_power_draw == sum_of(others, "power_draw")
        total_thrust ==
            IF self.engine # None
            THEN get_spec("Engine", self.engine).thrust ELSE 0
    IN  [ total_slots |-> Specs.Frame.total_slots,
          slots_used |-> self.slots_used,
          total_mass |-> total_mass,
          total_power_output |-> total_power_output,
          total_power_consumption |-> total_power_draw,
          power_balance |-> total_power_output - total_power_draw,
          thrust_to_weight_ratio |->
              IF total_mass > 0
              THEN [num |-> total_thrust, den |-> total_mass]
              ELSE [num |-> 0, den |-> 1] ]

\* _calculate_specs; the float thrust_to_weight_ratio is kept as the exact
\* fraction num/den.
calculate_specs(self) ==
    LET total_mass == Specs.Frame.mass + sum_of(active_modules(self), "mass")
        reactors == SelectSeq(active_modules(self), LAMBDA m : m[1] = "Reactor")
        total_power_output == sum_of(reactors, "power_output")
        total_power_draw == sum_of(active_modules(self), "power_draw")
        total_thrust ==
            IF self.engine # None
            THEN get_spec("Engine", self.engine).thrust ELSE 0
    IN  [ total_slots |-> Specs.Frame.total_slots,
          slots_used |-> self.slots_used,
          total_mass |-> total_mass,
          total_power_output |-> total_power_output,
          total_power_consumption |-> total_power_draw,
          power_balance |-> total_power_output - total_power_draw,
          thrust_to_weight_ratio |->
              IF total_mass > 0
              THEN [num |-> total_thrust, den |-> total_mass]
              ELSE [num |-> 0, den |-> 1] ]

\* class FinalizedBlueprint (spaceship_basic.py)
FinalizedBlueprint(specs) == [specs |-> specs]

\* finalize_blueprint that returns the blueprint but forgets to close the
\* builder.
finalize_blueprint_stays_open(self) ==
    IF check_not_finalized(self) # OK
    THEN Raise(self, check_not_finalized(self))
    ELSE IF self.phase \notin {CORE_LOCKED} /\ self.phase = FRAME_SET
    THEN Raise(self, "MustLock")
    ELSE IF calculate_specs_raises(self)
    THEN Raise(self, TypeError)
    ELSE LET final_specs == calculate_specs(self) IN
    Return(self, <<FinalizedBlueprint(final_specs)>>)

\* finalize_blueprint of spaceship_basic.py: only FRAME_SET is rejected by
\* the phase test; from INIT the method goes on to _calculate_specs.
finalize_blueprint(self) ==
    IF check_not_finalized(self) # OK
    THEN Raise(self, check_not_finalized(self))
    ELSE IF self.phase \notin {CORE_LOCKED} /\ self.phase = FRAME_SET
    THEN Raise(self, "MustLock")
    ELSE IF calculate_specs_raises(self)
    THEN Raise(self, TypeError)
    ELSE LET final_specs == calculate_specs(self) IN
    Return([self EXCEPT !.phase = FINALIZED], <<FinalizedBlueprint(final_specs)>>)

\* class Module (spaceship_bonusB.py), __init__
Module(category, spec) ==
    [ category |-> category,
      spec |-> spec,
      state |-> IF category = "Reactor" THEN "ONLINE" ELSE "OFFLINE",
      current_power |-> 0,
      heat |-> 0,
      hp |-> IF "max_hp" \in DOMAIN spec THEN spec.max_hp ELSE 100,
      is_full_thrust |-> FALSE ]

\* class SimFinalizedBlueprint (spaceship_bonusB.py), __init__
SimFinalizedBlueprint(specs, modules) ==
    [ specs |-> specs,
      modules |-> modules,
      total_power_output |-> specs.total_power_output,
      installed_modules |-> [c \in DOMAIN modules |-> Len(modules[c]) > 0] ]

\* finalize_blueprint of spaceship_bonusB.py
finalize_blueprint_bonusB(self) ==
    IF check_not_finalized(self) # OK
    THEN Raise(self, check_not_finalized(self))
    ELSE IF self.phase # CORE_LOCKED /\ self.phase = FRAME_SET
    THEN Raise(self, "MustLock")
    ELSE IF self.phase # CORE_LOCKED
    THEN Raise(self, "NotCoreLocked")
    ELSE LET opt(type) == IF type # None THEN <<type>> ELSE <<>>
             modules_map ==
                 [ Reactor     |-> self.reactors,
                   Engine      |-> opt(self.engine),
                   LifeSupport |-> opt(self.life_support),
                   Bridge      |-> opt(self.bridge),
                   Shield      |-> opt(self.shield),
                   Sensors     |-> opt(self.sensors) ]
             installed == {c \in DOMAIN modules_map : modules_map[c] # <<>>}
             dynamic_modules ==
                 [ c \in installed |->
                     [ i \in DOMAIN modules_map[c] |->
                         Module(c, get_spec(c, modules_map[c][i])) ] ]
             finalized == [self EXCEPT !.phase = FINALIZED]
    IN
    IF calculate_specs_raises(finalized)
    THEN Raise(finalized, TypeError)
    ELSE Return(finalized,
                <<SimFinalizedBlueprint(calculate_specs(finalized), dynamic_modules)>>)

(***************************************************************************)
(* 3. The caller: any sequence of builder calls on one builder             *)
(***************************************************************************)

\* start_blueprint() of either source file
Init ==
    /\ impl \in Impls
    /\ builder = BlueprintBuilder
    /\ design = <<>>
    /\ last = [ op |-> "start_blueprint", arg |-> None, result |-> OK,
                before |-> BlueprintBuilder ]
    /\ ship = <<>>
    /\ simulator = <<>>
    /\ call = <<>>
    /\ second = <<>>
    /\ typed = <<>>

\* One call builder.op(arg): the object is left as the method left it, a
\* returned blueprint is kept by the caller.
Call(op, arg, out) ==
    /\ builder' = out.self
    /\ design' = IF out.ret # <<>> THEN out.ret ELSE design
    /\ last' = [op |-> op, arg |-> arg, result |-> out.result, before |-> builder]
    /\ UNCHANGED impl
    /\ UNCHANGED simvars

SetFrame == Call("set_frame", None, set_frame(builder))

AddReactor ==
    \E type_name \in TypeNames :
        Call("add_reactor", type_name, add_reactor(builder, type_name))

AddEngine ==
    \E type_name \in TypeNames :
        Call("add_engine", type_name, add_engine(builder, type_name))

AddLifeSupport ==
    \E type_name \in TypeNames :
        Call("add_life_support", type_name, add_life_support(builder, type_name))

AddBridge ==
    \E type_name \in TypeNames :
        Call("add_bridge", type_name, add_bridge(builder, type_name))

LockCoreSystems == Call("lock_core_systems", None, lock_core_systems(builder))

AddShield ==
    \E type_name \in TypeNames :
        Call("add_shield", type_name, add_shield(builder, type_name))

AddSensors ==
    \E type_name \in TypeNames :
        Call("add_sensors", type_name, add_sensors(builder, type_name))

FinalizeBlueprint ==
    Call("finalize_blueprint", None,
         IF impl = "bonusB"
         THEN finalize_blueprint_bonusB(builder)
         ELSE finalize_blueprint(builder))

Next ==
    \/ SetFrame
    \/ AddReactor
    \/ AddEngine
    \/ AddLifeSupport
    \/ AddBridge
    \/ LockCoreSystems
    \/ AddShield
    \/ AddSensors
    \/ FinalizeBlueprint

Spec == Init /\ [][Next]_vars

(***************************************************************************)
(* 4. Module and ShipSimulator (spaceship_bonusB.py)                       *)
(***************************************************************************)

\* POWER_PRIORITY with Shield ranked second and Reactor third
POWER_PRIORITY_shield_second ==
    <<"LifeSupport", "Shield", "Reactor", "Bridge", "Engine", "Sensors">>

\* POWER_PRIORITY, P1 first
POWER_PRIORITY ==
    <<"LifeSupport", "Reactor", "Bridge", "Engine", "Shield", "Sensors">>

\* The key order of the modules dict built by finalize_blueprint, which is
\* the order `for category in self.modules` visits.
ModuleOrder ==
    <<"Reactor", "Engine", "LifeSupport", "Bridge", "Shield", "Sensors">>

\* class ExternalEvent: the member a name converts to.
ExternalEvent ==
    [ShieldHit |-> "SHIELD_HIT", EngineFullThrust |-> "ENGINE_FULL_THRUST"]

\* min / max of Python
Min(a, b) == IF a <= b THEN a ELSE b
Max(a, b) == IF a >= b THEN a ELSE b

\* module.spec.get(key, 0)
module_get(module, key) ==
    IF key \in DOMAIN module.spec THEN module.spec[key] ELSE 0

\* update_power without the early return of a failed module
update_power_recovers(module, allocated_power) ==
    LET required == module_get(module, "power_draw")
        m == [module EXCEPT !.current_power = allocated_power]
    IN  IF allocated_power >= required
        THEN [m EXCEPT !.state = "ONLINE"]
        ELSE IF allocated_power > 0
        THEN [m EXCEPT !.state = "DEGRADED"]
        ELSE IF m.category = "Reactor"
        THEN [m EXCEPT !.state = "FAILED"]
        ELSE IF m.category = "Engine" /\ m.is_full_thrust
        THEN [m EXCEPT !.state = "OFFLINE_POWER_DENIED"]
        ELSE [m EXCEPT !.state = "OFFLINE"]

\* Module.update_power
update_power(module, allocated_power) ==
    LET required == module_get(module, "power_draw")
        m == [module EXCEPT !.current_power = allocated_power]
    IN  IF m.state = "FAILED"
        THEN [m EXCEPT !.current_power = 0]
        ELSE IF m.category = "Reactor"
        THEN IF allocated_power >= required
             THEN [m EXCEPT !.state = "ONLINE"]
             ELSE IF allocated_power > 0
             THEN [m EXCEPT !.state = "DEGRADED"]
             ELSE [m EXCEPT !.state = "FAILED"]
        ELSE IF allocated_power >= required
        THEN [m EXCEPT !.state = "ONLINE"]
        ELSE IF allocated_power > 0 /\ allocated_power < required
        THEN [m EXCEPT !.state = "DEGRADED"]
        ELSE IF m.category = "Engine" /\ m.is_full_thrust
        THEN [m EXCEPT !.state = "OFFLINE_POWER_DENIED"]
        ELSE [m EXCEPT !.state = "OFFLINE"]

\* generate_heat without the doubling at full thrust
generate_heat_never_doubled(module) ==
    IF module.state \in {"ONLINE", "DEGRADED"}
    THEN [module EXCEPT !.heat = @ + module_get(module, "heat_generation")]
    ELSE module

\* generate_heat without the test of the module's state
generate_heat_when_failed(module) ==
    LET base_heat == module_get(module, "heat_generation")
    IN  IF module.category = "Engine" /\ module.is_full_thrust
        THEN [module EXCEPT !.heat = @ + base_heat * 2]
        ELSE [module EXCEPT !.heat = @ + base_heat]

\* Module.generate_heat
generate_heat(module) ==
    IF module.state \in {"ONLINE", "DEGRADED"}
    THEN LET base_heat == module_get(module, "heat_generation")
         IN  IF module.category = "Engine" /\ module.is_full_thrust
             THEN [module EXCEPT !.heat = @ + base_heat * 2]
             ELSE [module EXCEPT !.heat = @ + base_heat]
    ELSE module

\* int(heat * 0.9) with the product rounded up
int_times_0_9_rounds_up(heat) ==
    IF heat >= 0 THEN (heat * 9 + 9) \div 10 ELSE -(((-heat) * 9) \div 10)

\* int(heat * 0.9): the product truncated toward zero (the float product of
\* an integer below 100000 and 0.9 truncates to the exact value).
int_times_0_9(heat) ==
    IF heat >= 0 THEN (heat * 9) \div 10 ELSE -(((-heat) * 9) \div 10)

\* dissipate_heat losing 20% of the heat per tick
dissipate_heat_fifth(module) ==
    [module EXCEPT !.heat = Max(0, (@ * 8) \div 10)]

\* dissipate_heat losing a fixed amount of heat, without the max(0, ...)
dissipate_heat_fixed_loss(module) ==
    [module EXCEPT !.heat = @ - 10]

\* Module.dissipate_heat
dissipate_heat(module) ==
    [module EXCEPT !.heat = Max(0, int_times_0_9(@))]

\* OVERHEAT_THRESHOLD of Module.check_overheat
OVERHEAT_THRESHOLD == 100

\* check_overheat without `self.heat = OVERHEAT_THRESHOLD`
check_overheat_no_clamp(module) ==
    IF module.heat > OVERHEAT_THRESHOLD
    THEN [module EXCEPT !.state = "FAILED"]
    ELSE module

\* Module.check_overheat: the module after the check
check_overheat(module) ==
    IF module.heat > OVERHEAT_THRESHOLD
    THEN [module EXCEPT !.state = "FAILED", !.heat = OVERHEAT_THRESHOLD]
    ELSE module

\* Module.check_overheat: the alert it sends
check_overheat_alerts(module) ==
    IF module.heat > OVERHEAT_THRESHOLD
    THEN << <<"Overheated", module.category>> >>
    ELSE <<>>

\* take_damage leaving a shield without HP in the state it had
take_damage_stays_online(module, damage) ==
    IF module.category = "Shield" /\ module.state # "FAILED"
    THEN [module EXCEPT !.hp = Max(0, module.hp - damage)]
    ELSE module

\* Module.take_damage
take_damage(module, damage) ==
    IF module.category = "Shield" /\ module.state # "FAILED"
    THEN LET hp == Max(0, module.hp - damage)
         IN  IF hp = 0
             THEN [module EXCEPT !.hp = hp, !.state = "FAILED"]
             ELSE [module EXCEPT !.hp = hp]
    ELSE module

\* ShipSimulator.__init__: the simulator's own fields (self.modules is the
\* blueprint's modules dict itself).
ShipSimulator == [current_tick |-> 0, full_thrust_enabled |-> FALSE]

\* ShipSimulator._get_module_status_string; `modules` is the list of the
\* category or <<>> when the category has no entry (the [None] default).
get_module_status_string(blueprint, category) ==
    IF category \notin DOMAIN blueprint.modules
       \/ category \notin DOMAIN blueprint.installed_modules
       \/ ~blueprint.installed_modules[category]
    THEN "UNAVAILABLE"
    ELSE LET module == blueprint.modules[category][1]
         IN  IF module.state = "FAILED" THEN "FAILED"
             ELSE IF module.state = "OFFLINE" /\ category = "Engine"
                     /\ module.is_full_thrust
             THEN "OFFLINE_POWER_DENIED"
             ELSE IF module.state = "DEGRADED" THEN "DEGRADED"
             ELSE IF module.state = "ONLINE" THEN "ONLINE"
             ELSE "OFFLINE"

\* sum(m.<field> for m in one category's list)
RECURSIVE sum_field(_, _)
sum_field(mods, field) ==
    IF mods = <<>> THEN 0 ELSE Head(mods)[field] + sum_field(Tail(mods), field)

\* sum(m.<field> for category in self.modules for m in self.modules[category])
RECURSIVE sum_modules(_, _, _)
sum_modules(modules, field, p) ==
    IF p > Len(ModuleOrder)
    THEN 0
    ELSE (IF ModuleOrder[p] \in DOMAIN modules
          THEN sum_field(modules[ModuleOrder[p]], field) ELSE 0)
         + sum_modules(modules, field, p + 1)

\* ShipSimulator._get_json_state raises KeyError when a category it indexes
\* directly has no entry.
get_json_state_raises(blueprint) ==
    ~({"LifeSupport", "Engine", "Bridge"} \subseteq DOMAIN blueprint.modules)

\* _get_json_state reporting a failed reactor's cooler as INACTIVE
get_json_state_failed_is_inactive(blueprint) ==
    LET modules == blueprint.modules
        cooler_status ==
            IF "Reactor" \in DOMAIN modules
            THEN LET reactor_module == modules["Reactor"][1]
                 IN  IF reactor_module.state \in {"ONLINE", "DEGRADED"}
                     THEN "ACTIVE"
                     ELSE "INACTIVE"
            ELSE "INACTIVE"
    IN  [ total_power_draw |-> sum_modules(modules, "current_power", 1),
          total_power_output |-> blueprint.total_power_output,
          heat |-> sum_modules(modules, "heat", 1),
          cooler_status |-> cooler_status,
          life_support_status |-> get_module_status_string(blueprint, "LifeSupport"),
          engine_status |-> get_module_status_string(blueprint, "Engine"),
          bridge_status |-> get_module_status_string(blueprint, "Bridge"),
          shield_status |-> get_module_status_string(blueprint, "Shield"),
          sensors_status |-> get_module_status_string(blueprint, "Sensors") ]

\* ShipSimulator._get_json_state
get_json_state(blueprint) ==
    LET modules == blueprint.modules
        cooler_status ==
            IF "Reactor" \in DOMAIN modules
            THEN LET reactor_module == modules["Reactor"][1]
                 IN  IF reactor_module.state \in {"ONLINE", "DEGRADED"}
                     THEN "ACTIVE"
                     ELSE IF reactor_module.state = "FAILED"
                     THEN "FAILED"
                     ELSE "INACTIVE"
            ELSE "INACTIVE"
    IN  [ total_power_draw |-> sum_modules(modules, "current_power", 1),
          total_power_output |-> blueprint.total_power_output,
          heat |-> sum_modules(modules, "heat", 1),
          cooler_status |-> cooler_status,
          life_support_status |-> get_module_status_string(blueprint, "LifeSupport"),
          engine_status |-> get_module_status_string(blueprint, "Engine"),
          bridge_status |-> get_module_status_string(blueprint, "Bridge"),
          shield_status |-> get_module_status_string(blueprint, "Shield"),
          sensors_status |-> get_module_status_string(blueprint, "Sensors") ]

\* ShipSimulator._allocate_power: the inner loop over one category's list,
\* from its i-th module on.
RECURSIVE allocate_category(_, _, _)
\* _allocate_power forgetting `remaining_power -= allocated`
allocate_category_no_deduction(mods, i, remaining_power) ==
    IF i > Len(mods)
    THEN [modules |-> mods, remaining_power |-> remaining_power]
    ELSE LET module == mods[i] IN
         IF module.state = "FAILED"
         THEN allocate_category([mods EXCEPT ![i] = update_power(module, 0)],
                                i + 1, remaining_power)
         ELSE LET required == module_get(module, "power_draw")
                  allocated == Min(required, remaining_power)
              IN  allocate_category(
                      [mods EXCEPT ![i] = update_power(module, allocated)],
                      i + 1, remaining_power)

\* _allocate_power granting every request in full, whatever is left
allocate_category_grants_draw(mods, i, remaining_power) ==
    IF i > Len(mods)
    THEN [modules |-> mods, remaining_power |-> remaining_power]
    ELSE LET module == mods[i] IN
         IF module.state = "FAILED"
         THEN allocate_category([mods EXCEPT ![i] = update_power(module, 0)],
                                i + 1, remaining_power)
         ELSE LET required == module_get(module, "power_draw")
                  allocated == required
              IN  allocate_category(
                      [mods EXCEPT ![i] = update_power(module, allocated)],
                      i + 1, remaining_power - allocated)

\* _allocate_power granting a request in full or not at all
allocate_category_all_or_nothing(mods, i, remaining_power) ==
    IF i > Len(mods)
    THEN [modules |-> mods, remaining_power |-> remaining_power]
    ELSE LET module == mods[i] IN
         IF module.state = "FAILED"
         THEN allocate_category([mods EXCEPT ![i] = update_power(module, 0)],
                                i + 1, remaining_power)
         ELSE LET required == module_get(module, "power_draw")
                  allocated == IF required <= remaining_power THEN required ELSE 0
              IN  allocate_category(
                      [mods EXCEPT ![i] = update_power(module, allocated)],
                      i + 1, remaining_power - allocated)

allocate_category(mods, i, remaining_power) ==
    IF i > Len(mods)
    THEN [modules |-> mods, remaining_power |-> remaining_power]
    ELSE LET module == mods[i] IN
         IF module.state = "FAILED"
         THEN allocate_category([mods EXCEPT ![i] = update_power(module, 0)],
                                i + 1, remaining_power)
         ELSE LET required == module_get(module, "power_draw")
                  allocated == Min(required, remaining_power)
              IN  allocate_category(
                      [mods EXCEPT ![i] = update_power(module, allocated)],
                      i + 1, remaining_power - allocated)

\* ShipSimulator._allocate_power: the outer loop, from the p-th priority on.
RECURSIVE allocate_from(_, _, _)
allocate_from(modules, p, remaining_power) ==
    IF p > Len(POWER_PRIORITY)
    THEN [modules |-> modules, remaining_power |-> remaining_power]
    ELSE LET category == POWER_PRIORITY[p] IN
         IF category \notin DOMAIN modules
         THEN allocate_from(modules, p + 1, remaining_power)
         ELSE LET r == allocate_category(modules[category], 1, remaining_power)
              IN  allocate_from([modules EXCEPT ![category] = r.modules],
                                p + 1, r.remaining_power)

\* _allocate_power with half of the design's output to hand out
allocate_power_half_output(blueprint) ==
    allocate_from(blueprint.modules, 1,
                  blueprint.total_power_output \div 2).modules

\* _allocate_power starting from what the last tick left unallocated
allocate_power_carries_over(blueprint) ==
    allocate_from(blueprint.modules, 1,
                  blueprint.total_power_output
                  - sum_modules(blueprint.modules, "current_power", 1)).modules

\* ShipSimulator._allocate_power
allocate_power(blueprint) ==
    allocate_from(blueprint.modules, 1, blueprint.total_power_output).modules

\* ShipSimulator._process_events: one event
process_event(st, event) ==
    IF event = "ENGINE_FULL_THRUST"
    THEN IF "Engine" \in DOMAIN st.modules
         THEN [st EXCEPT !.full_thrust_enabled = TRUE,
                         !.modules["Engine"][1].is_full_thrust = TRUE]
         ELSE [st EXCEPT !.full_thrust_enabled = TRUE,
                         !.alerts = Append(@, <<"NoEngine", "Engine">>)]
    ELSE IF event = "SHIELD_HIT"
    THEN IF "Shield" \in DOMAIN st.modules
         THEN LET shield == st.modules["Shield"][1] IN
              IF shield.state # "FAILED"
              THEN LET hit == take_damage(shield, 20) IN
                   [st EXCEPT !.modules["Shield"][1] = hit,
                              !.alerts =
                                  @ \o << <<"ShieldHit", "Shield">> >>
                                    \o (IF hit.hp = 0
                                        THEN << <<"ShieldFailedAfterHit", "Shield">> >>
                                        ELSE <<>>)]
              ELSE [st EXCEPT !.alerts = Append(@, <<"ShieldAlreadyFailed", "Shield">>)]
         ELSE [st EXCEPT !.alerts = Append(@, <<"NoShield", "Shield">>)]
    ELSE st

\* ShipSimulator._process_events
RECURSIVE process_events(_, _)
process_events(st, events) ==
    IF events = <<>>
    THEN st
    ELSE process_events(process_event(st, Head(events)), Tail(events))

\* ShipSimulator._update_thermodynamics: one category's list
thermodynamics_of(mods) ==
    [i \in DOMAIN mods |-> check_overheat(dissipate_heat(generate_heat(mods[i])))]

\* ShipSimulator._update_thermodynamics
update_thermodynamics(modules) ==
    [category \in DOMAIN modules |-> thermodynamics_of(modules[category])]

\* ShipSimulator._update_thermodynamics: the overheat alerts, in dict order
RECURSIVE thermodynamics_alerts(_, _, _)
thermodynamics_alerts(modules, p, i) ==
    IF p > Len(ModuleOrder)
    THEN <<>>
    ELSE IF ModuleOrder[p] \notin DOMAIN modules
            \/ i > Len(modules[ModuleOrder[p]])
    THEN thermodynamics_alerts(modules, p + 1, 1)
    ELSE check_overheat_alerts(
             dissipate_heat(generate_heat(modules[ModuleOrder[p]][i])))
         \o thermodynamics_alerts(modules, p, i + 1)

\* ShipSimulator._handle_chain_reactions: it only sends alerts
handle_chain_reactions(modules) ==
    (IF "Reactor" \in DOMAIN modules /\ modules["Reactor"][1].state = "FAILED"
     THEN << <<"ChainReaction", "Reactor">> >> ELSE <<>>)
    \o (IF "LifeSupport" \in DOMAIN modules
           /\ modules["LifeSupport"][1].state \in {"DEGRADED", "OFFLINE", "FAILED"}
        THEN << <<"ChainReaction", "LifeSupport">> >> ELSE <<>>)
    \o (IF "Shield" \in DOMAIN modules /\ modules["Shield"][1].state = "FAILED"
           /\ "Bridge" \in DOMAIN modules
        THEN << <<"ChainReaction", "Shield">> >> ELSE <<>>)

\* The events_json strings a caller passes, by what json.loads makes of
\* them: "blank" is the empty or all-space string, "invalid" is not JSON,
\* "list" is a JSON list of the strings `names`, "scalar" is valid JSON that
\* cannot be iterated (a number, null, true).
EventsJson(kind, names) == [kind |-> kind, names |-> names]

\* tick, lines 538-547: the parsed event list, the alert sent, and whether
\* an exception leaves the try block uncaught.  ExternalEvent(name) raises
\* ValueError for a name that is no member's value, which discards the
\* whole list; iterating a scalar raises TypeError, which no clause catches.
\* tick without the `except json.JSONDecodeError` clause
parse_events_invalid_raises(events_json) ==
    IF events_json.kind = "blank"
    THEN [raises |-> FALSE, events |-> <<>>, alerts |-> <<>>]
    ELSE IF events_json.kind \in {"invalid", "scalar"}
    THEN [raises |-> TRUE, events |-> <<>>, alerts |-> <<>>]
    ELSE LET event_names == events_json.names IN
         IF \E i \in DOMAIN event_names : event_names[i] \notin DOMAIN ExternalEvent
         THEN [raises |-> FALSE, events |-> <<>>,
               alerts |-> << <<"UnknownEvent", "tick">> >>]
         ELSE [raises |-> FALSE,
               events |-> [i \in DOMAIN event_names |-> ExternalEvent[event_names[i]]],
               alerts |-> <<>>]

\* tick skipping the unknown names of a list and keeping the events it knows
parse_events_keeps_known(events_json) ==
    IF events_json.kind = "blank"
    THEN [raises |-> FALSE, events |-> <<>>, alerts |-> <<>>]
    ELSE IF events_json.kind = "invalid"
    THEN [raises |-> FALSE, events |-> <<>>,
          alerts |-> << <<"InvalidJSON", "tick">> >>]
    ELSE IF events_json.kind = "scalar"
    THEN [raises |-> TRUE, events |-> <<>>, alerts |-> <<>>]
    ELSE LET event_names == events_json.names
             is_event(name) == name \in DOMAIN ExternalEvent
             known == SelectSeq(event_names, is_event)
         IN  [raises |-> FALSE,
              events |-> [i \in DOMAIN known |-> ExternalEvent[known[i]]],
              alerts |-> IF known = event_names THEN <<>>
                         ELSE << <<"UnknownEvent", "tick">> >>]

parse_events(events_json) ==
    IF events_json.kind = "blank"
    THEN [raises |-> FALSE, events |-> <<>>, alerts |-> <<>>]
    ELSE IF events_json.kind = "invalid"
    THEN [raises |-> FALSE, events |-> <<>>,
          alerts |-> << <<"InvalidJSON", "tick">> >>]
    ELSE IF events_json.kind = "scalar"
    THEN [raises |-> TRUE, events |-> <<>>, alerts |-> <<>>]
    ELSE LET event_names == events_json.names IN
         IF \E i \in DOMAIN event_names : event_names[i] \notin DOMAIN ExternalEvent
         THEN [raises |-> FALSE, events |-> <<>>,
               alerts |-> << <<"UnknownEvent", "tick">> >>]
         ELSE [raises |-> FALSE,
               events |-> [i \in DOMAIN event_names |-> ExternalEvent[event_names[i]]],
               alerts |-> <<>>]

\* The end of tick without `engine.is_full_thrust = False`
reset_full_thrust_keeps_flag(modules) == modules

\* tick, line 565-567: is_full_thrust of every engine is reset
reset_full_thrust(modules) ==
    IF "Engine" \in DOMAIN modules
    THEN [modules EXCEPT !["Engine"] =
            [i \in DOMAIN @ |-> [@[i] EXCEPT !.is_full_thrust = FALSE]]]
    ELSE modules

\* ShipSimulator.tick: the blueprint (whose modules the simulator mutates)
\* and the simulator after the call, the outcome, the alerts sent, and the
\* modules as _allocate_power found and left them.
tick(blueprint, sim, events_json) ==
    LET parsed == parse_events(events_json) IN
    IF parsed.raises
    THEN [ blueprint |-> blueprint, simulator |-> sim, result |-> TypeError,
           alerts |-> <<>>, at_allocation |-> blueprint.modules,
           allocated |-> blueprint.modules ]
    ELSE
    LET current_tick == sim.current_tick + 1
        processed ==
            process_events([ modules |-> blueprint.modules,
                             full_thrust_enabled |-> sim.full_thrust_enabled,
                             alerts |-> parsed.alerts ], parsed.events)
        allocated ==
            allocate_power([blueprint EXCEPT !.modules = processed.modules])
        heated == update_thermodynamics(allocated)
        alerts == processed.alerts
                  \o thermodynamics_alerts(allocated, 1, 1)
                  \o handle_chain_reactions(heated)
    IN  [ blueprint |-> [blueprint EXCEPT !.modules = reset_full_thrust(heated)],
          simulator |-> [current_tick |-> current_tick,
                         full_thrust_enabled |-> FALSE],
          result |-> OK,
          alerts |-> alerts,
          at_allocation |-> processed.modules,
          allocated |-> allocated ]

(***************************************************************************)
(* The caller of the simulator: main_simulator_loop, any sequence of       *)
(* `tick <events>` and `print_state` commands on one simulator.            *)
(***************************************************************************)

\* Ticks after which the model stops the command loop.
MaxTicks == 2

\* Longest event list of one tick command.
MaxEvents == 2

\* The names a JSON event list is made of: the two events and a name that
\* is no event.
EventNames == {"ShieldHit", "EngineFullThrust", "WarpJump"}

\* The events_json arguments of tick.
EventInputs ==
    { EventsJson(kind, <<>>) : kind \in {"blank", "invalid", "scalar"} }
    \cup { EventsJson("list", names) :
             names \in UNION { [1..n -> EventNames] : n \in 0..MaxEvents } }

\* The builders left by the calls of `outs` that returned normally.
Returned(outs) == { out.self : out \in { o \in outs : o.result = OK } }

\* The builders a method chain as in __main__ reaches, call by call:
\* set_frame, add_reactor, add_engine, add_life_support, add_bridge,
\* lock_core_systems, then add_shield and add_sensors or not.
FramedBuilders == Returned({ set_frame(BlueprintBuilder) })
ReactorBuilders ==
    Returned({ add_reactor(b, t) : b \in FramedBuilders, t \in TypeNames })
EngineBuilders ==
    Returned({ add_engine(b, t) : b \in ReactorBuilders, t \in TypeNames })
LifeSupportBuilders ==
    Returned({ add_life_support(b, t) : b \in EngineBuilders, t \in TypeNames })
BridgeBuilders ==
    Returned({ add_bridge(b, t) : b \in LifeSupportBuilders, t \in TypeNames })
LockedBuilders ==
    Returned({ lock_core_systems(b) : b \in BridgeBuilders })
ShieldBuilders ==
    LockedBuilders
    \cup Returned({ add_shield(b, t) : b \in LockedBuilders, t \in TypeNames })
SensorsBuilders ==
    ShieldBuilders
    \cup Returned({ add_sensors(b, t) : b \in ShieldBuilders, t \in TypeNames })

\* finalize_blueprint at the end of every such chain: the builder before
\* and after the call and the blueprint returned.
BuildChains ==
    { [before |-> c.before, builder |-> c.out.self, blueprint |-> c.out.ret[1]] :
        c \in { x \in { [before |-> b, out |-> finalize_blueprint_bonusB(b)] :
                          b \in SensorsBuilders } :
                x.out.result = OK } }

\* ShipSimulator(blueprint, logger, alerter) on a blueprint the builder of
\* spaceship_bonusB.py produced.
SimInit ==
    /\ impl = "bonusB"
    /\ \E c \in BuildChains :
          /\ builder = c.builder
          /\ last = [ op |-> "finalize_blueprint", arg |-> None, result |-> OK,
                      before |-> c.before ]
          /\ design = <<c.blueprint>>
          /\ ship = c.blueprint
    /\ simulator = ShipSimulator
    /\ second = <<>>
    /\ typed = <<>>
    /\ call = [ op |-> "ShipSimulator", input |-> EventsJson("blank", <<>>),
                result |-> OK, alerts |-> <<>>, ret |-> <<>>,
                at_allocation |-> ship.modules, allocated |-> ship.modules,
                before |-> [ship |-> ship, simulator |-> simulator] ]

\* `tick <events_json>`: simulator.tick(events_json).  The blueprint the
\* caller holds is the object the simulator mutates.
TickCommand(inputs, max_ticks) ==
    /\ simulator.current_tick < max_ticks
    /\ \E events_json \in inputs :
          \E out \in {tick(ship, simulator, events_json)} :
          /\ ship' = out.blueprint
          /\ simulator' = out.simulator
          /\ design' = <<out.blueprint>>
          /\ call' = [ op |-> "tick", input |-> events_json,
                       result |-> out.result, alerts |-> out.alerts,
                       ret |-> <<>>,
                       at_allocation |-> out.at_allocation,
                       allocated |-> out.allocated,
                       before |-> [ship |-> ship, simulator |-> simulator] ]
    /\ UNCHANGED <<impl, builder, last, second, typed>>

Tick == TickCommand(EventInputs, MaxTicks)

\* print_state refreshing the power allocation before it reports
PrintState_reallocates ==
    /\ call' = [ op |-> "print_state", input |-> EventsJson("blank", <<>>),
                 result |-> OK, alerts |-> <<>>,
                 ret |-> <<get_json_state(ship)>>,
                 at_allocation |-> ship.modules, allocated |-> ship.modules,
                 before |-> [ship |-> ship, simulator |-> simulator] ]
    /\ ship' = [ship EXCEPT !.modules = allocate_power(ship)]
    /\ UNCHANGED <<impl, builder, design, last, simulator, second, typed>>

\* `print_state`: simulator._get_json_state()
PrintState ==
    /\ call' = [ op |-> "print_state", input |-> EventsJson("blank", <<>>),
                 result |-> IF get_json_state_raises(ship) THEN "KeyError" ELSE OK,
                 alerts |-> <<>>,
                 ret |-> IF get_json_state_raises(ship)
                         THEN <<>> ELSE <<get_json_state(ship)>>,
                 at_allocation |-> ship.modules, allocated |-> ship.modules,
                 before |-> [ship |-> ship, simulator |-> simulator] ]
    /\ UNCHANGED <<impl, builder, design, last, ship, simulator, second, typed>>

SimNext ==
    \/ Tick
    \/ PrintState

SimSpec == SimInit /\ [][SimNext]_vars

\* The total_power_output values a SimFinalizedBlueprint is constructed
\* with when its specs dict is not the builder's: from no power at all to
\* the output of one reactor, with a value inside each module's draw.
PowerOutputs == {0, 30, 50, 80, 120, 200, 425, 500, 560, 1000}

\* ShipSimulator(SimFinalizedBlueprint(specs, modules), logger, alerter)
\* with the modules of a finalized builder and any total_power_output.
PowerInit ==
    /\ impl = "bonusB"
    /\ \E c \in BuildChains, total_power_output \in PowerOutputs :
          /\ builder = c.builder
          /\ last = [ op |-> "finalize_blueprint", arg |-> None, result |-> OK,
                      before |-> c.before ]
          /\ ship = SimFinalizedBlueprint(
                        [c.blueprint.specs EXCEPT
                            !.total_power_output = total_power_output],
                        c.blueprint.modules)
          /\ design = <<ship>>
    /\ simulator = ShipSimulator
    /\ second = <<>>
    /\ typed = <<>>
    /\ call = [ op |-> "ShipSimulator", input |-> EventsJson("blank", <<>>),
                result |-> OK, alerts |-> <<>>, ret |-> <<>>,
                at_allocation |-> ship.modules, allocated |-> ship.modules,
                before |-> [ship |-> ship, simulator |-> simulator] ]

\* Ticks after which the model stops the command loop of PowerSpec.
MaxPowerTicks == 2

\* The events_json arguments of tick in PowerSpec: no event or one event.
PowerEventInputs ==
    { EventsJson("blank", <<>>) }
    \cup { EventsJson("list", <<name>>) : name \in DOMAIN ExternalEvent }

\* `tick <events>` on a simulator of PowerInit
PowerTick == TickCommand(PowerEventInputs, MaxPowerTicks)

PowerNext ==
    \/ PowerTick
    \/ PrintState

PowerSpec == PowerInit /\ [][PowerNext]_vars

\* Ticks after which the model stops the command loop of LongSpec.
MaxLongTicks == 6

\* The finalized builders of LongSpec: either reactor, with the shield it
\* admits or none, and one choice of the other modules.
LongChains ==
    { c \in BuildChains :
        /\ c.builder.engine = "Plasma"
        /\ c.builder.life_support = "Standard"
        /\ c.builder.bridge = "Explorer"
        /\ c.builder.sensors = None }

\* The total_power_output values of LongSpec: the builder's, and one that
\* leaves the reactor's cooling without power.
LongPowerOutputs == {50, 1000}

\* The events_json arguments of tick in LongSpec.
LongEventInputs ==
    { EventsJson("blank", <<>>),
      EventsJson("list", <<"EngineFullThrust">>),
      EventsJson("list", <<"ShieldHit", "ShieldHit">>) }

\* ShipSimulator(SimFinalizedBlueprint(specs, modules), logger, alerter)
\* for the command loops that run until modules overheat or fail.
LongInit ==
    /\ impl = "bonusB"
    /\ \E c \in LongChains, total_power_output \in LongPowerOutputs :
          /\ builder = c.builder
          /\ last = [ op |-> "finalize_blueprint", arg |-> None, result |-> OK,
                      before |-> c.before ]
          /\ ship = SimFinalizedBlueprint(
                        [c.blueprint.specs EXCEPT
                            !.total_power_output = total_power_output],
                        c.blueprint.modules)
          /\ design = <<ship>>
    /\ simulator = ShipSimulator
    /\ second = <<>>
    /\ typed = <<>>
    /\ call = [ op |-> "ShipSimulator", input |-> EventsJson("blank", <<>>),
                result |-> OK, alerts |-> <<>>, ret |-> <<>>,
                at_allocation |-> ship.modules, allocated |-> ship.modules,
                before |-> [ship |-> ship, simulator |-> simulator] ]

\* `tick <events>` on a simulator of LongInit
LongTick == TickCommand(LongEventInputs, MaxLongTicks)

LongNext ==
    \/ LongTick
    \/ PrintState

LongSpec == LongInit /\ [][LongNext]_vars

\* Ticks after which the model stops the command loop of RunSpec.
MaxRunTicks == 30

\* ShipSimulator(blueprint, logger, alerter) on a blueprint of the builder,
\* for the command loops that run until every heat has settled: either
\* reactor, either engine, the shield the reactor admits or none, and the
\* life support, bridge and sensors that generate the most heat.
RunInit ==
    /\ impl = "bonusB"
    /\ \E c \in { x \in BuildChains :
                     /\ x.builder.life_support = "Advanced"
                     /\ x.builder.bridge = "Command"
                     /\ x.builder.sensors = "Advanced" } :
          /\ builder = c.builder
          /\ last = [ op |-> "finalize_blueprint", arg |-> None, result |-> OK,
                      before |-> c.before ]
          /\ design = <<c.blueprint>>
          /\ ship = c.blueprint
    /\ simulator = ShipSimulator
    /\ second = <<>>
    /\ typed = <<>>
    /\ call = [ op |-> "ShipSimulator", input |-> EventsJson("blank", <<>>),
                result |-> OK, alerts |-> <<>>, ret |-> <<>>,
                at_allocation |-> ship.modules, allocated |-> ship.modules,
                before |-> [ship |-> ship, simulator |-> simulator] ]

\* `tick <events>` on a simulator of RunInit: no event, full thrust, one or
\* two shield hits, or JSON that is not a list.
RunTick ==
    TickCommand({ EventsJson("blank", <<>>), EventsJson("scalar", <<>>),
                  EventsJson("list", <<"EngineFullThrust">>),
                  EventsJson("list", <<"ShieldHit">>),
                  EventsJson("list", <<"ShieldHit", "ShieldHit">>) },
                MaxRunTicks)

RunNext == RunTick

RunSpec == RunInit /\ [][RunNext]_vars

\* Ticks of each simulator after which the model stops PairSpec.
MaxPairTicks == 2

\* Two simulators built from one blueprint:
\*   first = ShipSimulator(blueprint, ...); second = ShipSimulator(blueprint, ...)
\* Both keep `self.modules = blueprint.modules`, the blueprint's own dict of
\* Module objects, so `ship` is the state of both.
PairInit ==
    /\ impl = "bonusB"
    /\ \E c \in BuildChains :
          /\ builder = c.builder
          /\ last = [ op |-> "finalize_blueprint", arg |-> None, result |-> OK,
                      before |-> c.before ]
          /\ ship = c.blueprint
          /\ design = <<c.blueprint>>
    /\ simulator = ShipSimulator
    /\ second = ShipSimulator
    /\ typed = <<>>
    /\ call = [ op |-> "ShipSimulator", input |-> EventsJson("blank", <<>>),
                result |-> OK, alerts |-> <<>>, ret |-> <<>>,
                at_allocation |-> ship.modules, allocated |-> ship.modules,
                before |-> [ship |-> ship, simulator |-> simulator] ]

\* first.tick(events_json)
PairTick == TickCommand(PowerEventInputs, MaxPairTicks)

\* second.tick(events_json): the second simulator's own fields and the
\* modules it shares with the blueprint and the first simulator.
SecondTick ==
    /\ second.current_tick < MaxPairTicks
    /\ \E events_json \in PowerEventInputs :
          \E out \in {tick(ship, second, events_json)} :
          /\ ship' = out.blueprint
          /\ second' = out.simulator
          /\ design' = <<out.blueprint>>
          /\ call' = [ op |-> "second.tick", input |-> events_json,
                       result |-> out.result, alerts |-> out.alerts,
                       ret |-> <<>>,
                       at_allocation |-> out.at_allocation,
                       allocated |-> out.allocated,
                       before |-> [ship |-> ship, simulator |-> simulator] ]
    /\ UNCHANGED <<impl, builder, last, simulator, typed>>

PairNext ==
    \/ PairTick
    \/ SecondTick
    \/ PrintState

PairSpec == PairInit /\ [][PairNext]_vars

(***************************************************************************)
(* 4b. The typestate builder (spaceship_bonusA.py)                         *)
(*                                                                         *)
(* set_frame and lock_core_systems return a NEW BlueprintBuilder, so a     *)
(* caller can hold several builder objects.  `typed.objs` is the sequence  *)
(* of the objects created so far, a reference is an index into it, and     *)
(* `typed.lists` holds the reactor list objects, which two builders can    *)
(* share.  The phase tag (the name of the phantom class InitTag,           *)
(* FrameSetTag or CoreLockedTag) is stored but no method reads it: the     *)
(* annotation `self: BlueprintBuilder[Tag]` is checked by mypy only.       *)
(***************************************************************************)

\* MODULE_SPECS of spaceship_bonusA.py, the same literal as the one of
\* spaceship_basic.py
MODULE_SPECS_bonusA == MODULE_SPECS

\* BlueprintBuilder.__init__ of spaceship_bonusA.py: a new object is added
\* to the heap; kw holds the keyword arguments engine .. slots_used and
\* reactors = 0 is the default reactors=None.
\* `self.reactors = reactors or []` keeps the list object it is given when
\* that list has elements and makes a new list otherwise.
BlueprintBuilder_bonusA(heap, phase, frame, reactors, kw) ==
    LET fresh == reactors = 0 \/ heap.lists[reactors] = <<>>
        lists == IF fresh THEN Append(heap.lists, <<>>) ELSE heap.lists
        self == [ phase |-> phase, frame |-> frame,
                  reactors |-> IF fresh THEN Len(lists) ELSE reactors,
                  engine |-> kw.engine, life_support |-> kw.life_support,
                  bridge |-> kw.bridge, shield |-> kw.shield,
                  sensors |-> kw.sensors, slots_used |-> kw.slots_used ]
    IN  [objs |-> Append(heap.objs, self), lists |-> lists]

\* start_blueprint() of spaceship_bonusA.py
start_blueprint_bonusA ==
    BlueprintBuilder_bonusA([objs |-> <<>>, lists |-> <<>>], "InitTag", None,
        0,
        [ engine |-> None, life_support |-> None, bridge |-> None,
          shield |-> None, sensors |-> None, slots_used |-> 0 ])

\* A call that raises, a call that returns (a reference or a blueprint).
Raise_bonusA(heap, err) == [heap |-> heap, result |-> err, ret |-> <<>>]
Return_bonusA(heap, value) == [heap |-> heap, result |-> OK, ret |-> <<value>>]

\* _get_spec of spaceship_bonusA.py: the lookup fails when the type is not
\* in the category.
get_spec_raises_bonusA(module_category, module_type) ==
    module_type \notin DOMAIN MODULE_SPECS_bonusA[module_category]

\* _get_spec of spaceship_bonusA.py
get_spec_bonusA(module_category, module_type) ==
    LET entry == MODULE_SPECS_bonusA[module_category][module_type]
    IN  [k \in DOMAIN entry \cup {"type"} |->
            IF k = "type" THEN module_type ELSE entry[k]]

\* _check_slots of spaceship_bonusA.py
check_slots_bonusA(self, cost) ==
    IF self.frame = None
    THEN "FrameNotSet"
    ELSE LET remaining == MODULE_SPECS_bonusA.Frame.total_slots - self.slots_used
         IN  IF cost > remaining THEN "B-307" ELSE OK

\* set_frame of spaceship_bonusA.py: the receiver is left as it is.
set_frame_bonusA(heap, r) ==
    LET self == heap.objs[r] IN
    IF self.frame # None
    THEN Raise_bonusA(heap, "A-103")
    ELSE LET h == BlueprintBuilder_bonusA(heap, "FrameSetTag", "Frame",
                      self.reactors, self)
         IN  Return_bonusA(h, Len(h.objs))

\* add_reactor of spaceship_bonusA.py: the append goes to the list object,
\* the slot count to the receiver.
add_reactor_bonusA(heap, r, type_name) ==
    LET self == heap.objs[r] IN
    IF get_spec_raises_bonusA("Reactor", type_name)
    THEN Raise_bonusA(heap, "UnknownModule")
    ELSE LET spec == get_spec_bonusA("Reactor", type_name) IN
    IF check_slots_bonusA(self, spec.slot_cost) # OK
    THEN Raise_bonusA(heap, check_slots_bonusA(self, spec.slot_cost))
    ELSE Return_bonusA(
             [heap EXCEPT !.lists[self.reactors] = Append(@, spec.type),
                          !.objs[r].slots_used = @ + spec.slot_cost], r)

\* add_engine, add_life_support, add_bridge and add_sensors of
\* spaceship_bonusA.py: one body, over the category and the field it fills.
add_single_bonusA(heap, r, category, field, type_name) ==
    LET self == heap.objs[r] IN
    IF self[field] # None
    THEN Raise_bonusA(heap, "OnlyOne")
    ELSE IF get_spec_raises_bonusA(category, type_name)
    THEN Raise_bonusA(heap, "UnknownModule")
    ELSE LET spec == get_spec_bonusA(category, type_name) IN
    IF check_slots_bonusA(self, spec.slot_cost) # OK
    THEN Raise_bonusA(heap, check_slots_bonusA(self, spec.slot_cost))
    ELSE Return_bonusA(
             [heap EXCEPT !.objs[r][field] = spec.type,
                          !.objs[r].slots_used = @ + spec.slot_cost], r)

\* lock_core_systems of spaceship_bonusA.py: the new object takes the
\* receiver's reactor list (it has elements) and copies of its other fields.
lock_core_systems_bonusA(heap, r) ==
    LET self == heap.objs[r] IN
    IF ~(heap.lists[self.reactors] # <<>> /\ self.engine # None
         /\ self.life_support # None /\ self.bridge # None)
    THEN Raise_bonusA(heap, "B-209")
    ELSE LET h == BlueprintBuilder_bonusA(heap, "CoreLockedTag", self.frame,
                      self.reactors, self)
         IN  Return_bonusA(h, Len(h.objs))

\* add_shield of spaceship_bonusA.py
add_shield_bonusA(heap, r, type_name) ==
    LET self == heap.objs[r]
        reactors == heap.lists[self.reactors]
    IN
    IF self.shield # None
    THEN Raise_bonusA(heap, "OnlyOne")
    ELSE IF get_spec_raises_bonusA("Shield", type_name)
    THEN Raise_bonusA(heap, "UnknownModule")
    ELSE LET spec == get_spec_bonusA("Shield", type_name)
             has_fusion == \E i \in DOMAIN reactors : reactors[i] = "Fusion"
             has_antimatter ==
                 \E i \in DOMAIN reactors : reactors[i] = "Antimatter"
    IN
    IF has_fusion /\ type_name = "Phase"
    THEN Raise_bonusA(heap, "B-440")
    ELSE IF has_antimatter /\ type_name = "Magnetic"
    THEN Raise_bonusA(heap, "B-440")
    ELSE IF check_slots_bonusA(self, spec.slot_cost) # OK
    THEN Raise_bonusA(heap, check_slots_bonusA(self, spec.slot_cost))
    ELSE Return_bonusA(
             [heap EXCEPT !.objs[r].shield = spec.type,
                          !.objs[r].slots_used = @ + spec.slot_cost], r)

\* sum(m.get(key, 0) for m in modules) over the catalog of
\* spaceship_bonusA.py
RECURSIVE sum_of_bonusA(_, _)
sum_of_bonusA(modules, key) ==
    IF modules = <<>>
    THEN 0
    ELSE LET spec == get_spec_bonusA(Head(modules)[1], Head(modules)[2])
         IN  (IF key \in DOMAIN spec THEN spec[key] ELSE 0)
             + sum_of_bonusA(Tail(modules), key)

\* _calculate_specs of spaceship_bonusA.py: a builder without a frame
\* counts no frame mass and no slots.
calculate_specs_bonusA(heap, r) ==
    LET self == [heap.objs[r] EXCEPT !.reactors = heap.lists[@]]
        has_frame == self.frame # None
        total_mass ==
            (IF has_frame THEN MODULE_SPECS_bonusA.Frame.mass ELSE 0)
            + sum_of_bonusA(active_modules(self), "mass")
        reactors == SelectSeq(active_modules(self), LAMBDA m : m[1] = "Reactor")
        total_power_output == sum_of_bonusA(reactors, "power_output")
        total_power_draw == sum_of_bonusA(active_modules(self), "power_draw")
        total_thrust ==
            IF self.engine # None
            THEN get_spec_bonusA("Engine", self.engine).thrust ELSE 0
    IN  [ total_slots |->
              IF has_frame THEN MODULE_SPECS_bonusA.Frame.total_slots ELSE 0,
          slots_used |-> self.slots_used,
          total_mass |-> total_mass,
          total_power_output |-> total_power_output,
          total_power_consumption |-> total_power_draw,
          power_balance |-> total_power_output - total_power_draw,
          thrust_to_weight_ratio |->
              IF total_mass > 0
              THEN [num |-> total_thrust, den |-> total_mass]
              ELSE [num |-> 0, den |-> 1] ]

\* finalize_blueprint of spaceship_bonusA.py: no test, no change of the
\* receiver.
finalize_blueprint_bonusA(heap, r) ==
    Return_bonusA(heap, FinalizedBlueprint(calculate_specs_bonusA(heap, r)))

(***************************************************************************)
(* 4c. One caller driving both builders with the same calls                *)
(***************************************************************************)

\* The most builder objects of spaceship_bonusA.py a caller creates, and the
\* most calls it makes after the chain it starts with.
MaxBuilders == 3
MaxCalls == 3

\* The type names the caller passes to each method.
EquivTypes ==
    [ add_reactor      |-> {"Fusion", "Antimatter", "Warp"},
      add_engine       |-> {"Ion"},
      add_life_support |-> {"Standard"},
      add_bridge       |-> {"Explorer"},
      add_shield       |-> {"Magnetic", "Phase"},
      add_sensors      |-> {"Basic"} ]

\* The tag the annotation of `self` names, per method.
SelfTag ==
    [ set_frame          |-> "InitTag",
      add_reactor        |-> "FrameSetTag",
      add_engine         |-> "FrameSetTag",
      add_life_support   |-> "FrameSetTag",
      add_bridge         |-> "FrameSetTag",
      lock_core_systems  |-> "FrameSetTag",
      add_shield         |-> "CoreLockedTag",
      add_sensors        |-> "CoreLockedTag",
      finalize_blueprint |-> "CoreLockedTag" ]

\* builder.op(arg) on an object of spaceship_bonusA.py
typed_call(op, arg, heap, r) ==
    CASE op = "set_frame" -> set_frame_bonusA(heap, r)
      [] op = "add_reactor" -> add_reactor_bonusA(heap, r, arg)
      [] op = "add_engine" ->
             add_single_bonusA(heap, r, "Engine", "engine", arg)
      [] op = "add_life_support" ->
             add_single_bonusA(heap, r, "LifeSupport", "life_support", arg)
      [] op = "add_bridge" ->
             add_single_bonusA(heap, r, "Bridge", "bridge", arg)
      [] op = "lock_core_systems" -> lock_core_systems_bonusA(heap, r)
      [] op = "add_shield" -> add_shield_bonusA(heap, r, arg)
      [] op = "add_sensors" ->
             add_single_bonusA(heap, r, "Sensors", "sensors", arg)
      [] op = "finalize_blueprint" -> finalize_blueprint_bonusA(heap, r)

\* builder.op(arg) on the object of spaceship_basic.py
basic_call(op, arg, self) ==
    CASE op = "set_frame" -> set_frame(self)
      [] op = "add_reactor" -> add_reactor(self, arg)
      [] op = "add_engine" -> add_engine(self, arg)
      [] op = "add_life_support" -> add_life_support(self, arg)
      [] op = "add_bridge" -> add_bridge(self, arg)
      [] op = "lock_core_systems" -> lock_core_systems(self)
      [] op = "add_shield" -> add_shield(self, arg)
      [] op = "add_sensors" -> add_sensors(self, arg)
      [] op = "finalize_blueprint" -> finalize_blueprint(self)

\* start_blueprint() of spaceship_basic.py and of spaceship_bonusA.py
BothStart ==
    [ builder |-> BlueprintBuilder,
      design |-> <<>>,
      last |-> [ op |-> "start_blueprint", arg |-> None, result |-> OK,
                 before |-> BlueprintBuilder ],
      typed |-> [ objs |-> start_blueprint_bonusA.objs,
                  lists |-> start_blueprint_bonusA.lists,
                  ref |-> 1, result |-> OK, ret |-> <<1>>,
                  well_typed |-> TRUE, calls |-> 0 ] ]

\* The call op(arg) made on the builder of spaceship_basic.py and on the
\* object r of spaceship_bonusA.py.  well_typed records that every call so
\* far was made on an object whose tag is the one the method's annotation
\* names, which is what mypy accepts.
After(both, op, arg, r, counted) ==
    LET a == typed_call(op, arg,
                 [objs |-> both.typed.objs, lists |-> both.typed.lists], r)
        b == basic_call(op, arg, both.builder)
    IN  [ builder |-> b.self,
          design |-> IF b.ret # <<>> THEN b.ret ELSE both.design,
          last |-> [ op |-> op, arg |-> arg, result |-> b.result,
                     before |-> both.builder ],
          typed |-> [ objs |-> a.heap.objs, lists |-> a.heap.lists,
                      ref |-> r, result |-> a.result, ret |-> a.ret,
                      well_typed |-> both.typed.well_typed
                                     /\ both.typed.objs[r].phase = SelfTag[op],
                      calls |-> both.typed.calls + counted ] ]

\* A chain of calls, each made on the object the call before it returned,
\* as in `start_blueprint().set_frame().add_reactor("Fusion")...`.
RECURSIVE Chain(_, _)
Chain(both, calls) ==
    IF calls = <<>>
    THEN both
    ELSE Chain(After(both, Head(calls)[1], Head(calls)[2],
                     both.typed.ret[1], 0),
               Tail(calls))

\* The chains a caller starts with: nothing, the frame and the core, the
\* frame and the core locked.
StartChains ==
    LET core == { << <<"set_frame", None>>, <<"add_reactor", reactor>>,
                     <<"add_engine", "Ion">>,
                     <<"add_life_support", "Standard">>,
                     <<"add_bridge", "Explorer">> >> :
                  reactor \in {"Fusion", "Antimatter"} }
    IN  {<<>>} \cup core
        \cup {Append(c, <<"lock_core_systems", None>>) : c \in core}

EquivInit ==
    /\ impl = "basic"
    /\ \E c \in StartChains :
       \E both \in {Chain(BothStart, c)} :
          /\ builder = both.builder
          /\ design = both.design
          /\ last = both.last
          /\ typed = both.typed
    /\ ship = <<>>
    /\ simulator = <<>>
    /\ call = <<>>
    /\ second = <<>>

\* One call on both builders; the caller holds every object it was returned.
BothCall(op, arg, r) ==
    /\ typed.calls < MaxCalls
    /\ \E both \in {After([builder |-> builder, design |-> design,
                           last |-> last, typed |-> typed], op, arg, r, 1)} :
          /\ Len(both.typed.objs) <= MaxBuilders
          /\ builder' = both.builder
          /\ design' = both.design
          /\ last' = both.last
          /\ typed' = both.typed
    /\ UNCHANGED <<impl, ship, simulator, call, second>>

BothSetFrame ==
    \E r \in DOMAIN typed.objs : BothCall("set_frame", None, r)

BothAddReactor ==
    \E r \in DOMAIN typed.objs, type_name \in EquivTypes.add_reactor :
        BothCall("add_reactor", type_name, r)

BothAddEngine ==
    \E r \in DOMAIN typed.objs, type_name \in EquivTypes.add_engine :
        BothCall("add_engine", type_name, r)

BothAddLifeSupport ==
    \E r \in DOMAIN typed.objs, type_name \in EquivTypes.add_life_support :
        BothCall("add_life_support", type_name, r)

BothAddBridge ==
    \E r \in DOMAIN typed.objs, type_name \in EquivTypes.add_bridge :
        BothCall("add_bridge", type_name, r)

BothLockCoreSystems ==
    \E r \in DOMAIN typed.objs : BothCall("lock_core_systems", None, r)

BothAddShield ==
    \E r \in DOMAIN typed.objs, type_name \in EquivTypes.add_shield :
        BothCall("add_shield", type_name, r)

BothAddSensors ==
    \E r \in DOMAIN typed.objs, type_name \in EquivTypes.add_sensors :
        BothCall("add_sensors", type_name, r)

BothFinalizeBlueprint ==
    \E r \in DOMAIN typed.objs : BothCall("finalize_blueprint", None, r)

EquivNext ==
    \/ BothSetFrame
    \/ BothAddReactor
    \/ BothAddEngine
    \/ BothAddLifeSupport
    \/ BothAddBridge
    \/ BothLockCoreSystems
    \/ BothAddShield
    \/ BothAddSensors
    \/ BothFinalizeBlueprint

EquivSpec == EquivInit /\ [][EquivNext]_vars

(***************************************************************************)
(* 5. Properties of the builder                                            *)
(***************************************************************************)

\* The methods that install a core component, an optional component.
CoreAdds == {"add_reactor", "add_engine", "add_life_support", "add_bridge"}
OptionalAdds == {"add_shield", "add_sensors"}
AllAdds == CoreAdds \cup OptionalAdds

\* The category an add method installs and the field it stores it in.
CategoryOf(op) ==
    CASE op = "add_reactor"      -> "Reactor"
      [] op = "add_engine"       -> "Engine"
      [] op = "add_life_support" -> "LifeSupport"
      [] op = "add_bridge"       -> "Bridge"
      [] op = "add_shield"       -> "Shield"
      [] op = "add_sensors"      -> "Sensors"

SingletonAdds == AllAdds \ {"add_reactor"}

Installed(self, op) ==
    CASE op = "add_engine"       -> self.engine
      [] op = "add_life_support" -> self.life_support
      [] op = "add_bridge"       -> self.bridge
      [] op = "add_shield"       -> self.shield
      [] op = "add_sensors"      -> self.sensors

\* The phase in which an add method is legal.
LegalPhase(op) == IF op \in CoreAdds THEN FRAME_SET ELSE CORE_LOCKED

HasReactor(self, type) ==
    \E i \in DOMAIN self.reactors : self.reactors[i] = type

\* C1: in every state reached by any sequence of builder calls, slots_used
\* is at most the frame's total_slots (10).
C1_SlotsWithinCapacity ==
    builder.slots_used <= MODULE_SPECS.Frame.total_slots

\* A full builder has just refused one more component for lack of slots.
C1_Witness ==
    /\ builder.slots_used = MODULE_SPECS.Frame.total_slots
    /\ last.result = "B-307"

\* C2: the phase only changes INIT -> FRAME_SET -> CORE_LOCKED -> FINALIZED,
\* one step at a time, never backward, and never leaves FINALIZED.
C2_PhaseOrder ==
    [][ builder'.phase # builder.phase =>
            <<builder.phase, builder'.phase>> \in
                { <<INIT, FRAME_SET>>, <<FRAME_SET, CORE_LOCKED>>,
                  <<CORE_LOCKED, FINALIZED>> } ]_vars

\* A finalized builder has just refused a call and stayed finalized.
C2_Witness ==
    /\ builder.phase = FINALIZED
    /\ last.before.phase = FINALIZED

\* C3: finalize_blueprint on an INIT or FRAME_SET builder fails with a
\* SafetyViolationException, returns no Design and leaves the phase as it
\* was; a Design comes only out of a CORE_LOCKED builder.
C3_FinalizeNeedsLock ==
    /\ (last.op = "finalize_blueprint" /\ last.before.phase \in {INIT, FRAME_SET})
          => /\ last.result \in SafetyViolations
             /\ design = <<>>
             /\ builder.phase = last.before.phase
    /\ (last.op = "finalize_blueprint" /\ last.result = OK)
          => last.before.phase = CORE_LOCKED

\* C4: on a FINALIZED builder every method fails with [A-212].
C4_FinalizedRejectsAll ==
    last.before.phase = FINALIZED => last.result = "A-212"

\* C5: a call that fails leaves every field of the builder as it was.
C5_FailedCallNoChange ==
    last.result # OK => builder = last.before

\* add_engine has just failed the slot check on a builder without engine.
C5_Witness ==
    /\ last.op = "add_engine"
    /\ last.result = "B-307"
    /\ last.before.engine = None

\* C6: add_shield(S), S in {Magnetic, Phase}, on a CORE_LOCKED builder
\* without shield fails with [B-440] exactly for Fusion/Phase and
\* Antimatter/Magnetic and succeeds otherwise; no builder and no Design
\* holds one of the two forbidden pairs.
C6_ShieldCompatibility ==
    /\ ( /\ last.op = "add_shield"
         /\ last.before.phase = CORE_LOCKED
         /\ last.before.shield = None
         /\ last.arg \in {"Magnetic", "Phase"} )
          => LET forbidden ==
                     \/ HasReactor(last.before, "Fusion") /\ last.arg = "Phase"
                     \/ HasReactor(last.before, "Antimatter") /\ last.arg = "Magnetic"
             IN  /\ forbidden => last.result = "B-440" /\ builder.shield = None
                 /\ ~forbidden => last.result = OK /\ builder.shield = last.arg
    /\ ~(builder.shield = "Phase" /\ HasReactor(builder, "Fusion"))
    /\ ~(builder.shield = "Magnetic" /\ HasReactor(builder, "Antimatter"))
    /\ (design # <<>> /\ impl = "bonusB")
          => LET modules == design[1].modules
                 hasReactor(type) ==
                     \E i \in DOMAIN modules["Reactor"] :
                         modules["Reactor"][i].spec.type = type
             IN  "Shield" \in DOMAIN modules
                    => /\ ~(modules["Shield"][1].spec.type = "Phase"
                            /\ hasReactor("Fusion"))
                       /\ ~(modules["Shield"][1].spec.type = "Magnetic"
                            /\ hasReactor("Antimatter"))

\* A Magnetic shield has just been refused next to an Antimatter reactor.
C6_Witness ==
    /\ last.op = "add_shield"
    /\ last.arg = "Magnetic"
    /\ last.result = "B-440"
    /\ HasReactor(builder, "Antimatter")

\* C7: lock_core_systems on a FRAME_SET builder succeeds, moving to
\* CORE_LOCKED, iff a reactor, an engine, a life support and a bridge are
\* installed, and otherwise fails with [B-209] staying FRAME_SET; every
\* CORE_LOCKED or FINALIZED builder has the four core categories.
C7_LockNeedsCore ==
    LET complete(self) ==
            /\ self.reactors # <<>>
            /\ self.engine # None
            /\ self.life_support # None
            /\ self.bridge # None
    IN  /\ (last.op = "lock_core_systems" /\ last.before.phase = FRAME_SET)
              => IF complete(last.before)
                 THEN last.result = OK /\ builder.phase = CORE_LOCKED
                 ELSE last.result = "B-209" /\ builder.phase = FRAME_SET
        /\ builder.phase \in {CORE_LOCKED, FINALIZED} => complete(builder)

\* Locking has just been refused for a builder that lacks only the engine.
C7_Witness ==
    /\ last.op = "lock_core_systems"
    /\ last.result = "B-209"
    /\ builder.reactors # <<>>
    /\ builder.engine = None
    /\ builder.life_support # None
    /\ builder.bridge # None

\* C8: core add methods succeed only in FRAME_SET and optional add methods
\* only in CORE_LOCKED; in any other phase but FINALIZED they fail with the
\* phase violation [A-305] and install nothing.
C8_AddPhaseGate ==
    /\ (last.op \in AllAdds /\ last.result = OK)
          => last.before.phase = LegalPhase(last.op)
    /\ ( /\ last.op \in AllAdds
         /\ last.before.phase \notin {LegalPhase(last.op), FINALIZED} )
          => /\ last.result = "A-305"
             /\ builder = last.before

\* add_reactor right after start_blueprint, without set_frame, was refused.
C8_Witness ==
    /\ last.op = "add_reactor"
    /\ last.arg = "Fusion"
    /\ last.before = BlueprintBuilder
    /\ last.result = "A-305"

C10_CheckPrecedence ==
    LET self == last.before
        known == last.arg \in DOMAIN MODULE_SPECS[CategoryOf(last.op)]
        finalizedFails == self.phase = FINALIZED
        phaseFails == self.phase # LegalPhase(last.op)
        duplicateFails ==
            last.op \in SingletonAdds /\ Installed(self, last.op) # None
        compatibilityFails ==
            /\ last.op = "add_shield"
            /\ \/ HasReactor(self, "Fusion") /\ last.arg = "Phase"
               \/ HasReactor(self, "Antimatter") /\ last.arg = "Magnetic"
        capacityFails ==
            /\ known
            /\ MODULE_SPECS[CategoryOf(last.op)][last.arg].slot_cost
                  > MODULE_SPECS.Frame.total_slots - self.slots_used
    IN  last.op \in AllAdds =>
          /\ finalizedFails => last.result = "A-212"
          /\ (~finalizedFails /\ phaseFails) => last.result = "A-305"
          /\ (~finalizedFails /\ ~phaseFails /\ duplicateFails)
                => last.result = "OnlyOne"
          /\ (~finalizedFails /\ ~phaseFails /\ ~duplicateFails
                /\ compatibilityFails) => last.result = "B-440"
          /\ (~finalizedFails /\ ~phaseFails /\ ~duplicateFails
                /\ ~compatibilityFails /\ capacityFails)
                => last.result = "B-307"

\* A second bridge was asked of a full builder: the duplicate test and the
\* slot test both fail, and the duplicate error is the one reported.
C10_Witness ==
    /\ last.op = "add_bridge"
    /\ last.arg \in {"Explorer", "Command"}
    /\ last.before.bridge # None
    /\ last.before.slots_used = MODULE_SPECS.Frame.total_slots
    /\ last.before.phase = FRAME_SET
    /\ last.result = "OnlyOne"

\* C11: slots_used is the sum of the slot costs of the installed components
\* (each reactor counted); a successful add raises it by the component's
\* slot cost and no other call changes it; frame, Fusion, Plasma, Advanced,
\* Command, lock, Magnetic, Basic gives slots_used = 10 and finalizes.
C11_SlotsUsedIsSum ==
    LET cost(category, type) ==
            IF type = None THEN 0 ELSE MODULE_SPECS[category][type].slot_cost
        slotSum(self) ==
            Cardinality({i \in DOMAIN self.reactors : self.reactors[i] = "Fusion"})
                * MODULE_SPECS.Reactor.Fusion.slot_cost
            + Cardinality({i \in DOMAIN self.reactors : self.reactors[i] = "Antimatter"})
                * MODULE_SPECS.Reactor.Antimatter.slot_cost
            + cost("Engine", self.engine) + cost("LifeSupport", self.life_support)
            + cost("Bridge", self.bridge) + cost("Shield", self.shield)
            + cost("Sensors", self.sensors)
        scenarioA(self) ==
            /\ self.reactors = <<"Fusion">> /\ self.engine = "Plasma"
            /\ self.life_support = "Advanced" /\ self.bridge = "Command"
            /\ self.shield = "Magnetic" /\ self.sensors = "Basic"
    IN  /\ builder.slots_used = slotSum(builder)
        /\ builder.slots_used - last.before.slots_used =
              IF last.op \in AllAdds /\ last.result = OK
              THEN cost(CategoryOf(last.op), last.arg)
              ELSE 0
        /\ scenarioA(builder) => builder.slots_used = 10
        /\ ( /\ last.op = "finalize_blueprint"
             /\ scenarioA(last.before)
             /\ last.before.phase = CORE_LOCKED )
              => /\ last.result = OK
                 /\ design # <<>>
                 /\ design[1].specs.slots_used = 10

\* The builder of the sequence frame, Fusion, Plasma, Advanced, Command,
\* lock, Magnetic, Basic has just been finalized.
C11_Witness ==
    /\ last.op = "finalize_blueprint"
    /\ last.result = OK
    /\ builder.reactors = <<"Fusion">> /\ builder.engine = "Plasma"
    /\ builder.life_support = "Advanced" /\ builder.bridge = "Command"
    /\ builder.shield = "Magnetic" /\ builder.sensors = "Basic"
    /\ builder.slots_used = 10

\* C12: once finalize_blueprint has returned a Design, no further call on
\* the builder changes a statistic stored in it.
C12_DesignImmutable ==
    [][ design # <<>> =>
            /\ design' # <<>>
            /\ \A k \in { "total_slots", "slots_used", "total_mass",
                          "total_power_output", "total_power_consumption",
                          "power_balance" } :
                  design'[1].specs[k] = design[1].specs[k] ]_vars

\* A Design exists and the finalized builder has since been asked for a
\* shield and has refused.
C12_Witness ==
    /\ design # <<>>
    /\ last.op = "add_shield"
    /\ last.before.phase = FINALIZED

\* C13: the Design statistics are the reference sums: total_mass = frame
\* mass + masses of all installed instances, total_power_output = sum of the
\* reactors' power_output, total_power_consumption = sum of power_draw over
\* all instances, the reactors' own power_draw included, power_balance =
\* their difference.
C13_DesignStatistics ==
    LET attr(category, type, key) ==
            IF type = None \/ key \notin DOMAIN Specs[category][type]
            THEN 0 ELSE Specs[category][type][key]
        overReactors(self, key) ==
            Cardinality({i \in DOMAIN self.reactors : self.reactors[i] = "Fusion"})
                * attr("Reactor", "Fusion", key)
            + Cardinality({i \in DOMAIN self.reactors : self.reactors[i] = "Antimatter"})
                * attr("Reactor", "Antimatter", key)
        overAll(self, key) ==
            overReactors(self, key)
            + attr("Engine", self.engine, key)
            + attr("LifeSupport", self.life_support, key)
            + attr("Bridge", self.bridge, key)
            + attr("Shield", self.shield, key)
            + attr("Sensors", self.sensors, key)
    IN  design # <<>> =>
          LET specs == design[1].specs
          IN  /\ specs.total_mass = Specs.Frame.mass + overAll(builder, "mass")
              /\ specs.total_power_output = overReactors(builder, "power_output")
              /\ specs.total_power_consumption = overAll(builder, "power_draw")
              /\ specs.power_balance =
                    overReactors(builder, "power_output")
                    - overAll(builder, "power_draw")

\* A Design with an Antimatter reactor, whose cooling draw of 70 is part of
\* the consumption: 70 + 250 + 50 + 75 + 100 + 50.
C13_Witness ==
    /\ design # <<>>
    /\ impl = "bonusB"
    /\ builder.reactors = <<"Antimatter">>
    /\ builder.shield # None /\ builder.sensors # None
    /\ design[1].specs.total_power_consumption = 595

(***************************************************************************)
(* Properties of the simulator.                                            *)
(***************************************************************************)

\* The categories in the order _allocate_power serves them.
RankOrder == <<"LifeSupport", "Reactor", "Bridge", "Engine", "Shield", "Sensors">>

\* A tick command that returned has acted.
Ticked == call.op = "tick" /\ call.result = OK

\* The installed modules as <<category, index>> places.
Places(modules) ==
    UNION { { <<category, i>> : i \in DOMAIN modules[category] } :
            category \in DOMAIN modules }

\* Position of a category in an order of categories.
RankIn(order, category) ==
    CHOOSE r \in DOMAIN order : order[r] = category

\* Place `a` is served before place `b` by a loop over `order` and then
\* over each category's list.
ServedBefore(order, a, b) ==
    \/ RankIn(order, a[1]) < RankIn(order, b[1])
    \/ a[1] = b[1] /\ a[2] < b[2]

\* sum of current_power over a set of places
RECURSIVE GrantedTo(_, _)
GrantedTo(modules, places) ==
    IF places = {} THEN 0
    ELSE LET place == CHOOSE x \in places : TRUE
         IN  modules[place[1]][place[2]].current_power
             + GrantedTo(modules, places \ {place})

\* The budget left when the loop of _allocate_power reaches `place`.
RemainingAt(blueprint, modules, place) ==
    blueprint.total_power_output
    - GrantedTo(modules, { x \in Places(modules) :
                             ServedBefore(RankOrder, x, place) })

\* The module at `place` received part of its draw.
PartlyGranted(modules, place) ==
    LET module == modules[place[1]][place[2]]
    IN  0 < module.current_power
        /\ module.current_power < module_get(module, "power_draw")

\* C14 as stated: after the power allocation of a tick every module holds
\* either 0 or all of its power_draw, never an amount strictly between.
C14_NoPartialGrant ==
    Ticked => \A place \in Places(call.allocated) :
                 ~PartlyGranted(call.allocated, place)

\* C14 amended: the allocation of a tick grants a module that has not
\* failed min(power_draw, remaining budget), where the remaining budget is
\* total_power_output less all that was granted to the modules served
\* before it; a failed module is granted 0.
C14_GrantIsMinOfDrawAndBudget ==
    Ticked =>
        \A place \in Places(call.allocated) :
            LET before == call.at_allocation[place[1]][place[2]]
                after == call.allocated[place[1]][place[2]]
            IN  after.current_power =
                    IF before.state = "FAILED" THEN 0
                    ELSE Min(module_get(before, "power_draw"),
                             RemainingAt(ship, call.allocated, place))

\* A tick left a module with part of its draw although a module served
\* before it was granted power.
C14_Witness ==
    /\ Ticked
    /\ \E place \in Places(call.allocated) :
          /\ PartlyGranted(call.allocated, place)
          /\ RemainingAt(ship, call.allocated, place) < ship.total_power_output

\* No module that has not failed is granted power while a module served
\* before it in `order`, and not failed either, went short of its draw.
GrantedInOrder(order) ==
    \A a \in Places(call.allocated), b \in Places(call.allocated) :
        ( /\ ServedBefore(order, a, b)
          /\ call.at_allocation[a[1]][a[2]].state # "FAILED"
          /\ call.at_allocation[b[1]][b[2]].state # "FAILED"
          /\ call.allocated[b[1]][b[2]].current_power > 0 )
        => call.allocated[a[1]][a[2]].current_power
              = module_get(call.allocated[a[1]][a[2]], "power_draw")

\* C15 as stated: in every tick power is granted in the order LifeSupport,
\* Shield, reactor cooling, Bridge, Engine, Sensors: no category is granted
\* power that a category ranked higher in this order was denied.
C15_ShieldSecondOrder ==
    Ticked => GrantedInOrder(<<"LifeSupport", "Shield", "Reactor", "Bridge",
                               "Engine", "Sensors">>)

\* C15 amended: in every tick power is granted in the order LifeSupport,
\* Reactor (cooling), Bridge, Engine, Shield, Sensors: no module is granted
\* power while a module ranked higher in this order went short of its draw
\* (failed modules, which are granted nothing, apart).
C15_GrantedInPriorityOrder ==
    Ticked => GrantedInOrder(RankOrder)

\* A tick in which the budget covered the engine and left the shield, which
\* had not failed, without power.
C15_Witness ==
    /\ Ticked
    /\ {"Engine", "Shield"} \subseteq DOMAIN call.allocated
    /\ call.allocated["Engine"][1].current_power > 0
    /\ call.at_allocation["Shield"][1].state # "FAILED"
    /\ call.allocated["Shield"][1].current_power = 0

\* The amounts by which a request's draw is increased.
DrawIncreases == {1, 20, 50, 200}

\* The modules with the power_draw of the module at `place` increased.
WithDraw(modules, place, increase) ==
    [modules EXCEPT ![place[1]][place[2]].spec.power_draw = @ + increase]

\* The allocation of the tick had the module at `place` drawn more.
AllocatedWithDraw(place, increase) ==
    allocate_power([ship EXCEPT
                       !.modules = WithDraw(call.at_allocation, place, increase)])

\* C16: with total_power_output and all other requests as they were in a
\* tick, a larger draw of one module never increases the power allocated
\* to, or the budget remaining for, a module served after it.
C16_PriorityMonotonic ==
    Ticked =>
        \A high \in Places(call.allocated), increase \in DrawIncreases :
            \A more \in {AllocatedWithDraw(high, increase)} :
                \A low \in Places(call.allocated) :
                    ServedBefore(RankOrder, high, low) =>
                        /\ more[low[1]][low[2]].current_power
                             <= call.allocated[low[1]][low[2]].current_power
                        /\ RemainingAt(ship, more, low)
                             <= RemainingAt(ship, call.allocated, low)

\* A tick in which a larger draw of one module would have left a module
\* served after it with strictly less power.
C16_Witness ==
    /\ Ticked
    /\ \E high \in Places(call.allocated), increase \in DrawIncreases :
          \E low \in Places(call.allocated) :
              /\ ServedBefore(RankOrder, high, low)
              /\ AllocatedWithDraw(high, increase)[low[1]][low[2]].current_power
                    < call.allocated[low[1]][low[2]].current_power

\* The event input is invalid JSON, or a JSON list with a name that is no
\* event.
Malformed(events_json) ==
    \/ events_json.kind = "invalid"
    \/ /\ events_json.kind = "list"
       /\ \E i \in DOMAIN events_json.names :
             events_json.names[i] \notin DOMAIN ExternalEvent

\* The heat and the module statuses of the state snapshot.
HeatAndStatuses(blueprint) ==
    LET snapshot == get_json_state(blueprint)
    IN  [ heat |-> snapshot.heat,
          cooler_status |-> snapshot.cooler_status,
          life_support_status |-> snapshot.life_support_status,
          engine_status |-> snapshot.engine_status,
          bridge_status |-> snapshot.bridge_status,
          shield_status |-> snapshot.shield_status,
          sensors_status |-> snapshot.sensors_status ]

\* The tick command before the last one's state, run with a blank line.
EventFreeTick ==
    tick(call.before.ship, call.before.simulator, EventsJson("blank", <<>>))

\* C17 as stated: a tick with malformed event input leaves the heat and
\* every module status of the snapshot as they were and advances the tick
\* counter by one.
C17_MalformedTickIsNoOp ==
    (call.op = "tick" /\ Malformed(call.input)) =>
        /\ HeatAndStatuses(ship) = HeatAndStatuses(call.before.ship)
        /\ simulator.current_tick = call.before.simulator.current_tick + 1

\* C17 amended: a tick with malformed event input returns normally,
\* advances the tick counter by one and leaves the heat and every module
\* status of the snapshot as a tick without events leaves them (power is
\* allocated and heat generated as in any tick).
C17_MalformedTickAdvances ==
    (call.op = "tick" /\ Malformed(call.input)) =>
        /\ call.result = OK
        /\ simulator.current_tick = call.before.simulator.current_tick + 1
        /\ HeatAndStatuses(ship) = HeatAndStatuses(EventFreeTick.blueprint)

\* A tick with invalid JSON after which the snapshot's heat has changed.
C17_Witness ==
    /\ Ticked
    /\ call.input.kind = "invalid"
    /\ HeatAndStatuses(ship).heat # HeatAndStatuses(call.before.ship).heat

\* C18: a tick with invalid JSON, or with a list holding an unknown name,
\* sends one alert about the input and then leaves the ship and the
\* simulator, and sends the alerts, as a tick with no events does; the
\* events the list names beside the unknown one have no effect.
C18_MalformedIsEmptyEventList ==
    (call.op = "tick" /\ Malformed(call.input)) =>
        /\ ship = EventFreeTick.blueprint
        /\ simulator = EventFreeTick.simulator
        /\ call.alerts # <<>>
        /\ Head(call.alerts) \in { <<"InvalidJSON", "tick">>,
                                    <<"UnknownEvent", "tick">> }
        /\ Tail(call.alerts) = EventFreeTick.alerts

\* A tick on a ship with a working shield whose list names ShieldHit and
\* an unknown event.
C18_Witness ==
    /\ Ticked
    /\ call.input.kind = "list"
    /\ \E i \in DOMAIN call.input.names : call.input.names[i] = "ShieldHit"
    /\ \E i \in DOMAIN call.input.names : call.input.names[i] = "WarpJump"
    /\ "Shield" \in DOMAIN call.before.ship.modules
    /\ call.before.ship.modules["Shield"][1].state # "FAILED"

\* C19 as stated: tick returns normally for every event input string and
\* every reachable simulator state, and _get_json_state returns normally
\* for every design the builder produces.
C19_NeverThrows ==
    call.result = OK

\* C20 as stated: the tick counter is 0 when the simulator is created,
\* every tick call increases it by exactly 1 whatever its input, and the
\* snapshot leaves it alone.
C20_TickCounter ==
    /\ call.op = "ShipSimulator" => simulator.current_tick = 0
    /\ call.op = "tick" =>
          simulator.current_tick = call.before.simulator.current_tick + 1
    /\ call.op = "print_state" =>
          simulator.current_tick = call.before.simulator.current_tick

\* The module at a place.
ModuleAt(modules, place) == modules[place[1]][place[2]]

\* C21: in every state of the simulator each module's heat, and the heat
\* the snapshot reports, is at least 0.
C21_HeatNeverNegative ==
    /\ \A place \in Places(ship.modules) : ModuleAt(ship.modules, place).heat >= 0
    /\ get_json_state(ship).heat >= 0

\* A tick after which a module that generates no heat any more holds less
\* heat than before, and still some.
C21_Witness ==
    /\ Ticked
    /\ \E place \in Places(ship.modules) :
          /\ ModuleAt(ship.modules, place).heat > 0
          /\ ModuleAt(ship.modules, place).heat
                < ModuleAt(call.before.ship.modules, place).heat

\* The heat of a module after generate_heat and dissipate_heat of a tick,
\* before check_overheat.
HeatBeforeCheck(place) ==
    dissipate_heat(generate_heat(ModuleAt(call.allocated, place))).heat

\* The tick sent the overheat alert of the module at `place`.
OverheatAlert(place) ==
    \E i \in DOMAIN call.alerts : call.alerts[i] = <<"Overheated", place[1]>>

\* C22 as stated: a module's overheat alert is raised in exactly the ticks
\* that leave its heat at or above the threshold, and the heat is left as
\* generated and dissipated, not clamped to the threshold.
C22_AlertAtThresholdUnclamped ==
    Ticked =>
        \A place \in Places(ship.modules) :
            /\ OverheatAlert(place)
                  <=> ModuleAt(ship.modules, place).heat >= OVERHEAT_THRESHOLD
            /\ ModuleAt(ship.modules, place).heat = HeatBeforeCheck(place)

\* C22 amended: when a module's heat after generation and dissipation
\* exceeds the threshold, the tick raises its overheat alert, the module
\* becomes FAILED and its heat is set to the threshold; otherwise no
\* overheat alert is raised for it and its heat is kept; and no overheat
\* alert is raised for a module that had failed before the tick.
C22_OverheatFailsAndClamps ==
    Ticked =>
        \A place \in Places(ship.modules) :
            /\ IF HeatBeforeCheck(place) > OVERHEAT_THRESHOLD
               THEN /\ OverheatAlert(place)
                    /\ ModuleAt(ship.modules, place).state = "FAILED"
                    /\ ModuleAt(ship.modules, place).heat = OVERHEAT_THRESHOLD
               ELSE /\ ~OverheatAlert(place)
                    /\ ModuleAt(ship.modules, place).heat = HeatBeforeCheck(place)
            /\ ModuleAt(call.before.ship.modules, place).state = "FAILED"
                  => ~OverheatAlert(place)

\* A tick in which the reactor overheated while the engine had failed
\* in an earlier tick.
C22_Witness ==
    /\ Ticked
    /\ OverheatAlert(<<"Reactor", 1>>)
    /\ HeatBeforeCheck(<<"Reactor", 1>>) > OVERHEAT_THRESHOLD
    /\ ModuleAt(call.before.ship.modules, <<"Engine", 1>>).state = "FAILED"

\* The status the snapshot reports for a category.
StatusOf(snapshot, category) ==
    CASE category = "LifeSupport" -> snapshot.life_support_status
      [] category = "Engine" -> snapshot.engine_status
      [] category = "Bridge" -> snapshot.bridge_status
      [] category = "Shield" -> snapshot.shield_status
      [] category = "Sensors" -> snapshot.sensors_status
      [] category = "Reactor" -> snapshot.cooler_status

\* The tick's allocation left the module at `place`, which had not failed,
\* without any power.
Denied(place) ==
    /\ ModuleAt(call.at_allocation, place).state # "FAILED"
    /\ ModuleAt(call.allocated, place).current_power = 0

\* C23 as stated: after a tick that denied an installed category all power
\* the snapshot reports OFFLINE_POWER_DENIED for it.
C23_DeniedIsReported ==
    Ticked =>
        \A place \in Places(ship.modules) :
            (place[1] # "Reactor" /\ Denied(place)) =>
                StatusOf(get_json_state(ship), place[1]) = "OFFLINE_POWER_DENIED"

\* The event list of the tick names the event.
HasEvent(name) ==
    /\ call.input.kind = "list"
    /\ ~Malformed(call.input)
    /\ \E i \in DOMAIN call.input.names : call.input.names[i] = name

\* A tick with EngineFullThrust on a ship whose engine has not failed and
\* finds its whole draw in the budget.
FullThrustGranted ==
    /\ Ticked
    /\ HasEvent("EngineFullThrust")
    /\ "Engine" \in DOMAIN ship.modules
    /\ ModuleAt(call.at_allocation, <<"Engine", 1>>).state # "FAILED"
    /\ RemainingAt(ship, call.allocated, <<"Engine", 1>>)
          >= module_get(ModuleAt(ship.modules, <<"Engine", 1>>), "power_draw")

\* C24 as stated: after a tick with EngineFullThrust, an engine installed
\* and power enough for it, the snapshot's engine_status is HighThrust and
\* the engine is granted more than its baseline power_draw.
C24_HighThrustElevatedDraw ==
    FullThrustGranted =>
        /\ get_json_state(ship).engine_status = "HighThrust"
        /\ ModuleAt(ship.modules, <<"Engine", 1>>).current_power
              > module_get(ModuleAt(ship.modules, <<"Engine", 1>>), "power_draw")

\* C24 amended: after such a tick the engine is granted its baseline
\* power_draw, its heat of that tick is generated twice over, the snapshot's
\* engine_status is ONLINE (FAILED when that heat exceeds the threshold),
\* and the full-thrust flags are cleared again.
C24_FullThrustDoublesHeat ==
    FullThrustGranted =>
        LET place == <<"Engine", 1>>
            before == ModuleAt(call.before.ship.modules, place)
            after == ModuleAt(ship.modules, place)
            heat == Max(0, int_times_0_9(
                        before.heat + 2 * module_get(before, "heat_generation")))
        IN  /\ after.current_power = module_get(after, "power_draw")
            /\ after.heat = IF heat > OVERHEAT_THRESHOLD
                             THEN OVERHEAT_THRESHOLD ELSE heat
            /\ get_json_state(ship).engine_status
                  = IF heat > OVERHEAT_THRESHOLD THEN "FAILED" ELSE "ONLINE"
            /\ ~after.is_full_thrust
            /\ ~simulator.full_thrust_enabled

\* A full-thrust tick with power for the engine, which stays ONLINE.
C24_Witness ==
    /\ FullThrustGranted
    /\ get_json_state(ship).engine_status = "ONLINE"
    /\ ModuleAt(ship.modules, <<"Engine", 1>>).heat > 0

\* C25 as stated: in every snapshot cooler_status is ACTIVE or INACTIVE,
\* and after a tick it is ACTIVE exactly when the tick granted the
\* reactor's cooling request power.
C25_CoolerActiveOrInactive ==
    /\ get_json_state(ship).cooler_status \in {"ACTIVE", "INACTIVE"}
    /\ Ticked =>
          (get_json_state(ship).cooler_status = "ACTIVE"
             <=> ModuleAt(call.allocated, <<"Reactor", 1>>).current_power > 0)

\* C25 amended: in every snapshot cooler_status is ACTIVE or FAILED: it is
\* ACTIVE before the first tick and after a tick that granted the reactor
\* some cooling power without the reactor overheating, and FAILED after a
\* tick that granted it none or in which it overheated.
C25_CoolerActiveOrFailed ==
    /\ get_json_state(ship).cooler_status \in {"ACTIVE", "FAILED"}
    /\ simulator.current_tick = 0 => get_json_state(ship).cooler_status = "ACTIVE"
    /\ Ticked =>
          (get_json_state(ship).cooler_status = "ACTIVE"
             <=> /\ ModuleAt(call.allocated, <<"Reactor", 1>>).current_power > 0
                 /\ HeatBeforeCheck(<<"Reactor", 1>>) <= OVERHEAT_THRESHOLD)

\* A tick that left the reactor without cooling power, reported as FAILED.
C25_Witness ==
    /\ Ticked
    /\ ModuleAt(call.at_allocation, <<"Reactor", 1>>).state # "FAILED"
    /\ ModuleAt(call.allocated, <<"Reactor", 1>>).current_power = 0
    /\ get_json_state(ship).cooler_status = "FAILED"

\* sum of the power_draw of the modules that have not failed
RECURSIVE DrawOf(_, _)
DrawOf(modules, places) ==
    IF places = {} THEN 0
    ELSE LET place == CHOOSE x \in places : TRUE
         IN  (IF ModuleAt(modules, place).state = "FAILED" THEN 0
              ELSE module_get(ModuleAt(modules, place), "power_draw"))
             + DrawOf(modules, places \ {place})

\* C27: the allocation of every tick starts from the design's
\* total_power_output, which no tick changes: whatever earlier ticks
\* allocated and whichever modules have failed, the reactor included, the
\* power it grants in all is the smaller of total_power_output and the
\* draws of the modules that have not failed.
C27_BudgetIsTotalPowerOutput ==
    Ticked =>
        /\ ship.total_power_output = call.before.ship.total_power_output
        /\ GrantedTo(call.allocated, Places(call.allocated))
              = Min(ship.total_power_output,
                    DrawOf(call.at_allocation, Places(call.allocated)))

\* A tick after the reactor has failed and power was allocated before, in
\* which modules are still granted power.
C27_Witness ==
    /\ Ticked
    /\ ModuleAt(call.at_allocation, <<"Reactor", 1>>).state = "FAILED"
    /\ GrantedTo(call.before.ship.modules, Places(call.allocated)) > 0
    /\ GrantedTo(call.allocated, Places(call.allocated)) > 50

\* C28: a state snapshot leaves the tick counter and every module as they
\* are and reports the ship as it is, so the snapshot that follows a
\* snapshot returns the same record.
C28_SnapshotChangesNothing ==
    [][ call'.op = "print_state" =>
          /\ ship' = ship
          /\ simulator' = simulator
          /\ call'.ret = <<get_json_state(ship)>>
          /\ call.op = "print_state" => call'.ret = call.ret ]_vars

\* A snapshot taken after a tick.
C28_Witness ==
    /\ call.op = "print_state"
    /\ call.result = OK
    /\ simulator.current_tick > 0
    /\ call.ret[1].heat > 0

\* C30: a module that is FAILED stays FAILED through every tick and
\* snapshot, and every later tick allocates it no power.
C30_FailedIsAbsorbing ==
    [][ \A place \in Places(ship.modules) :
          ModuleAt(ship.modules, place).state = "FAILED" =>
            /\ ModuleAt(ship'.modules, place).state = "FAILED"
            /\ (call'.op = "tick" /\ call'.result = OK) =>
                  /\ ModuleAt(call'.allocated, place).current_power = 0
                  /\ ModuleAt(ship'.modules, place).current_power = 0 ]_vars

\* A tick on a ship whose engine had overheated, whose shield had lost all
\* HP and whose reactor had failed.
C30_Witness ==
    /\ Ticked
    /\ "Shield" \in DOMAIN ship.modules
    /\ ModuleAt(call.before.ship.modules, <<"Shield", 1>>).state = "FAILED"
    /\ ModuleAt(call.before.ship.modules, <<"Shield", 1>>).hp = 0
    /\ ModuleAt(call.before.ship.modules, <<"Engine", 1>>).state = "FAILED"
    /\ ModuleAt(call.before.ship.modules, <<"Reactor", 1>>).state = "FAILED"

\* C26 as stated: a tick on a second simulator built from the same design
\* leaves the first simulator's snapshot and tick counter as they were.
C26_SimulatorsIndependent ==
    call.op = "second.tick" =>
        /\ get_json_state(ship) = get_json_state(call.before.ship)
        /\ simulator = call.before.simulator

\* C29: whenever every call so far was made on an object of the phase its
\* method is annotated with, the last call succeeded on the typestate builder
\* exactly when the same call succeeded on the phase-checked builder.
C29_SucceedsExactlyAsBasic ==
    typed.well_typed => ((typed.result = OK) <=> (last.result = OK))

\* C31: a builder in CORE_LOCKED or FINALIZED has exactly one reactor,
\* lock_core_systems never succeeds on a builder with two or more reactors,
\* and every Design has total_power_output = 1000.
C31_OneReactorOnceLocked ==
    /\ builder.phase \in {CORE_LOCKED, FINALIZED} => Len(builder.reactors) = 1
    /\ (last.op = "lock_core_systems" /\ Len(last.before.reactors) >= 2)
          => last.result # OK
    /\ design # <<>> => design[1].specs.total_power_output = 1000

\* A Design has been returned by a builder that holds its single reactor
\* and six other slots' worth of core modules.
C31_Witness ==
    /\ last.op = "finalize_blueprint" /\ last.result = OK
    /\ builder.phase = FINALIZED
    /\ Len(builder.reactors) = 1
    /\ design[1].specs.total_power_output = 1000

\* C36: whatever total_power_output is, in every state of the simulator the
\* power the modules hold in all, which is the snapshot's total_power_draw,
\* is between 0 and total_power_output, and each module holds between 0 and
\* its own power_draw.
C36_AllocationWithinBudget ==
    /\ get_json_state(ship).total_power_draw >= 0
    /\ get_json_state(ship).total_power_draw <= ship.total_power_output
    /\ get_json_state(ship).total_power_draw
          = GrantedTo(ship.modules, Places(ship.modules))
    /\ \A place \in Places(ship.modules) :
          /\ ModuleAt(ship.modules, place).current_power >= 0
          /\ ModuleAt(ship.modules, place).current_power
                <= module_get(ModuleAt(ship.modules, place), "power_draw")

\* A tick has handed out all of a positive total_power_output and left a
\* module with part of its draw.
C36_Witness ==
    /\ Ticked
    /\ ship.total_power_output > 0
    /\ get_json_state(ship).total_power_draw = ship.total_power_output
    /\ \E place \in Places(ship.modules) : PartlyGranted(ship.modules, place)

\* C32: on a Design of the builder power is never short.  In the allocation
\* of every tick each module that has not failed is granted its whole
\* power_draw and is ONLINE, a reactor is FAILED after the allocation only
\* if it was before it, and no module is ever DEGRADED or
\* OFFLINE_POWER_DENIED.
C32_PowerNeverShort ==
    /\ \A place \in Places(ship.modules) :
          ModuleAt(ship.modules, place).state
              \notin {"DEGRADED", "OFFLINE_POWER_DENIED"}
    /\ Ticked =>
          \A place \in Places(call.allocated) :
              LET before == ModuleAt(call.at_allocation, place)
                  after == ModuleAt(call.allocated, place)
              IN  /\ before.state # "FAILED" =>
                        /\ after.current_power = module_get(after, "power_draw")
                        /\ after.state = "ONLINE"
                  /\ after.state \notin {"DEGRADED", "OFFLINE_POWER_DENIED"}
                  /\ (place[1] = "Reactor" /\ after.state = "FAILED") =>
                        before.state = "FAILED"

\* A tick at full thrust in which the six modules of the design with the
\* largest draw are all granted it: 70 + 250 + 50 + 75 + 100 + 50.
C32_Witness ==
    /\ Ticked
    /\ HasEvent("EngineFullThrust")
    /\ GrantedTo(call.allocated, Places(call.allocated)) = 595

\* C33: on a Design of the builder, whatever the inputs of the ticks, the
\* reactor is FAILED and the snapshot's cooler_status is FAILED once 9
\* ticks have run, the engine is FAILED once 14 ticks have run, and a
\* reactor or engine that was FAILED before a command is FAILED after it.
C33_ReactorAndEngineOverheat ==
    /\ simulator.current_tick >= 9 =>
          /\ ModuleAt(ship.modules, <<"Reactor", 1>>).state = "FAILED"
          /\ get_json_state(ship).cooler_status = "FAILED"
    /\ simulator.current_tick >= 14 =>
          ModuleAt(ship.modules, <<"Engine", 1>>).state = "FAILED"
    /\ \A place \in {<<"Reactor", 1>>, <<"Engine", 1>>} :
          ModuleAt(call.before.ship.modules, place).state = "FAILED"
              => ModuleAt(ship.modules, place).state = "FAILED"

\* The slowest case: an engine that holds out until tick 14 and overheats
\* in it, five ticks after the reactor did.
C33_Witness ==
    /\ Ticked
    /\ simulator.current_tick = 14
    /\ ModuleAt(call.before.ship.modules, <<"Engine", 1>>).state = "ONLINE"
    /\ ModuleAt(ship.modules, <<"Engine", 1>>).state = "FAILED"
    /\ ModuleAt(call.before.ship.modules, <<"Reactor", 1>>).state = "FAILED"
    /\ ModuleAt(call.before.ship.modules, <<"Reactor", 1>>).heat = 64

\* C34: on a Design of the builder the heat of the life support, bridge,
\* sensors and shield is at most 100 in every state and in every tick
\* before the overheat check; life support, bridge and sensors are never
\* FAILED, a shield is FAILED only with 0 HP, and after every tick the
\* snapshot reports life_support_status and bridge_status ONLINE.
C34_AuxiliariesNeverOverheat ==
    /\ \A place \in Places(ship.modules) :
          place[1] \in {"LifeSupport", "Bridge", "Sensors", "Shield"} =>
              /\ ModuleAt(ship.modules, place).heat <= OVERHEAT_THRESHOLD
              /\ Ticked => HeatBeforeCheck(place) <= OVERHEAT_THRESHOLD
              /\ ModuleAt(ship.modules, place).state = "FAILED" =>
                    /\ place[1] = "Shield"
                    /\ ModuleAt(ship.modules, place).hp = 0
    /\ Ticked =>
          /\ get_json_state(ship).life_support_status = "ONLINE"
          /\ get_json_state(ship).bridge_status = "ONLINE"

\* The hottest of these modules, a Phase shield, has settled at heat 99
\* and is still ONLINE, with the reactor and the engine long FAILED.
C34_Witness ==
    /\ Ticked
    /\ "Shield" \in DOMAIN ship.modules
    /\ ModuleAt(ship.modules, <<"Shield", 1>>).state = "ONLINE"
    /\ ModuleAt(ship.modules, <<"Shield", 1>>).heat = 99
    /\ ModuleAt(call.before.ship.modules, <<"Shield", 1>>).heat = 99
    /\ ModuleAt(ship.modules, <<"LifeSupport", 1>>).heat = 63
    /\ get_json_state(ship).cooler_status = "FAILED"
    /\ get_json_state(ship).engine_status = "FAILED"

\* C35: in every state each module's heat is an integer in 0..100.  In a
\* tick, a module whose heat after generation and dissipation is above 100
\* ends FAILED with heat exactly 100, and a module that is FAILED when the
\* thermal update starts ends with int(0.9 * heat): never more than it had,
\* and less while it has any.
C35_HeatBoundedAndFailedCools ==
    /\ \A place \in Places(ship.modules) :
          ModuleAt(ship.modules, place).heat \in 0..OVERHEAT_THRESHOLD
    /\ Ticked =>
          \A place \in Places(ship.modules) :
              LET before == ModuleAt(call.before.ship.modules, place)
                  after == ModuleAt(ship.modules, place)
              IN  /\ HeatBeforeCheck(place) > OVERHEAT_THRESHOLD =>
                        /\ after.state = "FAILED"
                        /\ after.heat = OVERHEAT_THRESHOLD
                  /\ ModuleAt(call.allocated, place).state = "FAILED" =>
                        /\ after.heat = int_times_0_9(before.heat)
                        /\ after.heat <= before.heat
                        /\ before.heat > 0 => after.heat < before.heat

\* A tick in which the engine overheats and is clamped to 100 while the
\* reactor, FAILED since an earlier tick, goes on cooling.
C35_Witness ==
    /\ Ticked
    /\ HeatBeforeCheck(<<"Engine", 1>>) > OVERHEAT_THRESHOLD
    /\ ModuleAt(ship.modules, <<"Engine", 1>>).heat = OVERHEAT_THRESHOLD
    /\ ModuleAt(call.before.ship.modules, <<"Reactor", 1>>).state = "FAILED"
    /\ ModuleAt(call.before.ship.modules, <<"Reactor", 1>>).heat = 100
    /\ ModuleAt(ship.modules, <<"Reactor", 1>>).heat = 90

\* C37: a shield starts with the max_hp of its variant and its HP stays in
\* 0..max_hp; a tick lowers the HP of a shield that has not failed by 20
\* for each ShieldHit of its input, down to 0 at most, and no command
\* raises it; a shield with 0 HP is FAILED; a tick whose hits meet a FAILED
\* shield or no shield leaves the modules as the same tick without events.
C37_ShieldHitPoints ==
    LET hits == IF call.input.kind = "list" /\ ~Malformed(call.input)
                THEN Cardinality({ i \in DOMAIN call.input.names :
                                     call.input.names[i] = "ShieldHit" })
                ELSE 0
        only_hits == hits > 0 /\ hits = Len(call.input.names)
        quiet == tick(call.before.ship, call.before.simulator,
                      EventsJson("blank", <<>>)).blueprint.modules
    IN  /\ "Shield" \in DOMAIN ship.modules =>
              LET before == ModuleAt(call.before.ship.modules, <<"Shield", 1>>)
                  after == ModuleAt(ship.modules, <<"Shield", 1>>)
              IN  /\ call.op = "ShipSimulator" => after.hp = after.spec.max_hp
                  /\ after.hp \in 0..after.spec.max_hp
                  /\ after.hp <= before.hp
                  /\ after.hp = 0 => after.state = "FAILED"
                  /\ (Ticked /\ before.state # "FAILED") =>
                        after.hp = Max(0, before.hp - 20 * hits)
                  /\ (Ticked /\ before.state = "FAILED" /\ only_hits) =>
                        ship.modules = quiet
        /\ (Ticked /\ "Shield" \notin DOMAIN ship.modules /\ only_hits) =>
              ship.modules = quiet

\* Two hits in one tick on a shield with 20 HP left: the first takes it to
\* 0 and FAILED, the second finds it failed.
C37_Witness ==
    /\ Ticked
    /\ call.input = EventsJson("list", <<"ShieldHit", "ShieldHit">>)
    /\ "Shield" \in DOMAIN ship.modules
    /\ ModuleAt(call.before.ship.modules, <<"Shield", 1>>).hp = 20
    /\ ModuleAt(call.before.ship.modules, <<"Shield", 1>>).state = "ONLINE"
    /\ ModuleAt(ship.modules, <<"Shield", 1>>).hp = 0
    /\ ModuleAt(ship.modules, <<"Shield", 1>>).state = "FAILED"

\* C38: a tick applies its events, then allocates power, then updates the
\* heat, then clears the full-thrust flags.  Both flags are FALSE in every
\* state; a shield whose HP a tick's hits bring to 0 holds no power after
\* that tick's allocation; and an engine that the tick's allocation leaves
\* running gains its heat_generation once, or twice exactly when the
\* tick's input carries EngineFullThrust, before dissipation and the check.
C38_EventsThenPowerThenHeat ==
    LET engine == ModuleAt(ship.modules, <<"Engine", 1>>)
        engine_before == ModuleAt(call.before.ship.modules, <<"Engine", 1>>)
        engine_allocated == ModuleAt(call.allocated, <<"Engine", 1>>)
        factor == IF HasEvent("EngineFullThrust") THEN 2 ELSE 1
        gained == IF engine_allocated.state \in {"ONLINE", "DEGRADED"}
                  THEN module_get(engine, "heat_generation") * factor
                  ELSE 0
    IN  /\ ~simulator.full_thrust_enabled
        /\ ~engine.is_full_thrust
        /\ Ticked =>
              engine.heat = Min(OVERHEAT_THRESHOLD,
                                int_times_0_9(engine_before.heat + gained))
        /\ (Ticked /\ "Shield" \in DOMAIN ship.modules) =>
              ((/\ ModuleAt(call.before.ship.modules, <<"Shield", 1>>).hp > 0
                /\ ModuleAt(ship.modules, <<"Shield", 1>>).hp = 0)
                  => /\ ModuleAt(call.allocated, <<"Shield", 1>>).current_power = 0
                     /\ ModuleAt(ship.modules, <<"Shield", 1>>).current_power = 0)

\* A tick whose two hits end a shield that held its full power: it holds
\* none after the tick, in which the running engine gained its
\* heat_generation of 25 once.
C38_Witness ==
    /\ Ticked
    /\ "Shield" \in DOMAIN ship.modules
    /\ ModuleAt(call.before.ship.modules, <<"Shield", 1>>).hp > 0
    /\ ModuleAt(call.before.ship.modules, <<"Shield", 1>>).current_power = 100
    /\ ModuleAt(ship.modules, <<"Shield", 1>>).hp = 0
    /\ ModuleAt(ship.modules, <<"Shield", 1>>).current_power = 0
    /\ ModuleAt(call.allocated, <<"Engine", 1>>).state = "ONLINE"
    /\ ModuleAt(ship.modules, <<"Engine", 1>>).heat
          = int_times_0_9(ModuleAt(call.before.ship.modules, <<"Engine", 1>>).heat + 25)

====
